---------------------------- MODULE Spec2Model ----------------------------
(***************************************************************************)
(* State-machine model of the Tilengine python binding (src/src/tilengine.py)*)
(* together with the part of the native engine that the binding drives.    *)
(*                                                                         *)
(* Definitions named after a python method (Engine_set_raster_callback,    *)
(* Layer_setup, Tilemap_set_tile, ...) are translated from the binding.    *)
(* Definitions named TLN_... stand for functions of the native shared      *)
(* library: only their ctypes declarations and their callers are part of   *)
(* the binding, so their effect is taken from the description of the       *)
(* engine's data model and components.                                     *)
(***************************************************************************)
EXTENDS Integers, Sequences, FiniteSets, TLC

(* ------------------------------ bounds --------------------------------- *)

\* largest vertical resolution passed to Engine.create
MaxHeight == 3

\* number of frames drawn in one behaviour
MaxFrames == 4

\* number of background layers passed to Engine.create
NumLayers == 2

\* number of sprites passed to Engine.create
NumSprites == 3

\* number of rows and of columns of the tilemap
MapSize == 2

\* number of entries of the palette given to Palette.create
PaletteSize == 3

\* number of wrapper objects the program holds at a time
MaxWrappers == 2

\* number of engine contexts alive at a time
MaxContexts == 2

(* --------------------------- program constants -------------------------- *)

\* Flags.FLIPX
FLIPX == 32768

\* Flags.PRIORITY
PRIORITY == 4096

\* range of a c_ushort field
UShortRange == 65536

\* Flags.MASKED
MASKED == 2048

\* number of values of a c_ubyte field
UByteRange == 256

\* python's None, and the NULL pointer it marshals to
None == "None"

\* no context: the NULL context handle
NoContext == -1

\* no Window object: the module variable _window before its first assignment
NoWindow == -1

\* no Layer.set_position call yet
NoLayer == -1

(* ------------------------------ variables ------------------------------- *)

VARIABLES
  \* frame scheduler of the native engine
  sched,          \* "Idle", "RenderingFrame" or "FrameComplete"
  line,           \* next scanline to draw
  frame,          \* frame number handed to the frame being drawn
  height,         \* vertical resolution given to Engine.create
  tln_cb_raster,  \* callback registered with TLN_SetRasterCallback
  tln_cb_frame,   \* callback registered with TLN_SetFrameCallback
  target,         \* render target: scanline -> pixels composited
  \* Engine and Window objects of the binding
  cb_raster_func, \* Engine.cb_raster_func
  cb_frame_func,  \* Engine.cb_frame_func
  window_created, \* module variable _window_created
  num_frame,      \* Window.num_frame
  caller,         \* binding call that is drawing the frame in progress
  \* record of the callback invocations of the frame in progress
  rasterCalls,
  frameCalls,
  frames_drawn,   \* number of frames started
  \* layers
  layer_pos,      \* native layer position <<x, y>>
  layer_mode,     \* native render modes enabled, per layer
  layer_content,  \* native content source of the layer
  layer_last,     \* the last two render-mode calls that succeeded, per layer
  layer_tilemap,  \* Layer.tilemap
  layer_bitmap,   \* Layer.bitmap
  layer_objectlist, \* Layer.objectlist
  layer_size,     \* <<Layer.width, Layer.height>>
  tilemap_tileset, \* tileset attached to each Tilemap
  \* sprites
  first_sprite,   \* head of the native z-order list
  next_sprite,    \* native next link of each sprite
  painted,        \* sprites composited by the last sprite pass, in order
  zorder_calls,   \* arguments of the last set_first and set_next calls
  anim,           \* native sprite animation, per sprite
  \* palette animation slots
  pal_anim,
  \* tilemap cells
  tiles,          \* native cell contents
  tile_out,       \* Tile structure filled by the last Tilemap.get_tile
  written,        \* Tile structure handed to the last set_tile, per cell
  \* exception raised by the last binding call
  raised,
  \* sprite slots
  sprite,         \* native state of each sprite slot
  mask_region,    \* native sprite mask region <<top, bottom>>
  sprite_spriteset, \* Sprite.spriteset of each Sprite object
  drawn,          \* scanline -> sprites the sprite compositor drew on it
  collision_acc,  \* collisions found so far by the frame in progress
  collision,      \* collisions computed by the last completed frame
  sprite_done,    \* the sprite slots as the last completed frame drew them
  collision_out,  \* value returned by the last Sprite.check_collision
  available_out,  \* value returned by the last Engine.get_available_sprite
  masking_call,   \* masking last asked for each sprite, by setup or enable_masking
  mask_call,      \* arguments of the last Engine.set_sprites_mask_region
  \* palettes
  palette,        \* colors of the Palette object the program edits and animates
  blend_call,     \* blend argument of the last set_palette_animation, per slot
  \* native objects and the python objects that wrap them
  natives,        \* native objects alive, by handle
  wrappers,       \* python wrapper objects alive
  deleted,        \* native objects deleted so far, with the wrapper that did it
  contexts,       \* native engine contexts alive
  current,        \* native context the calls act on
  engines,        \* Engine objects alive, by the handle they hold
  pack_native,    \* names of the sequences inside the native sequence pack
  pack_count,     \* SequencePack.count
  pack_sequences, \* SequencePack.sequences
  pack_alive,     \* the SequencePack object has not been torn down
  pos_call,       \* <<layer, x, y>> of the last Layer.set_position, in tenths
  \* the window
  window_obj,     \* module variable _window: the Window object it is bound to
  native_windows, \* number of native windows created so far
  window_out,     \* Window object returned by the last create or create_threaded
  window_by,      \* the call that returned it
  \* order of the callbacks and the compositing of the frame in progress
  events,
  \* a color strip and the palette it cycles
  strip,          \* the ColorStrip structure
  strip_base,     \* the palette before the first step
  strip_pal,      \* the palette after the steps done so far
  strip_steps     \* number of steps done

frameVars == <<sched, line, frame, height, tln_cb_raster, tln_cb_frame, target,
               cb_raster_func, cb_frame_func, window_created, num_frame, caller,
               rasterCalls, frameCalls, frames_drawn>>

layerVars == <<layer_mode, layer_content, layer_last, layer_tilemap,
               layer_bitmap, layer_objectlist, layer_size, tilemap_tileset>>

spriteVars == <<first_sprite, next_sprite, painted, zorder_calls>>

animVars == <<anim, pal_anim>>

tileVars == <<tiles, tile_out, written>>

\* written by the sprite pass of a frame
passVars == <<drawn, collision_acc, collision, sprite_done>>

\* left alone by the frames
spriteCfgVars == <<sprite, sprite_spriteset, masking_call>>

maskVars == <<mask_region, mask_call>>

outVars == <<collision_out, available_out>>

palVars == <<palette, blend_call>>

objVars == <<natives, wrappers, deleted, contexts, current, engines,
             pack_native, pack_count, pack_sequences>>

staticVars == <<spriteCfgVars, maskVars, outVars, palVars, objVars>>

extVars == <<passVars, staticVars>>

winVars == <<window_obj, native_windows, window_out, window_by>>

stripVars == <<strip, strip_base, strip_pal, strip_steps>>

\* left alone by the frames and by the calls on layers, sprites and palettes
auxVars == <<winVars, stripVars, pack_alive, pos_call>>

vars == <<frameVars, layer_pos, layerVars, spriteVars, animVars, tileVars, raised,
          extVars, auxVars, events>>

(* ------------------------------ value sets ------------------------------ *)

\* user functions that can be registered as raster or frame callback
Callbacks == {"f", "g"}

Layers == 0 .. NumLayers - 1

Sprites == 0 .. NumSprites - 1

\* coordinates handed to Layer.set_position, in tenths of a pixel
PosInputs == {0, 15}

\* int(x) of a python float given in tenths: truncation toward zero
PyInt(v10) == IF v10 >= 0 THEN v10 \div 10 ELSE -((-v10) \div 10)

(* ------------------------------ sequences ------------------------------- *)

\* Sequence objects made with Sequence.create_sequence
SpriteSequences == {"walk", "blink"}

\* the SequenceFrame list each one was created from
SequenceFrames(seq) ==
  IF seq = "walk"
    THEN << [index |-> 0, delay |-> 2], [index |-> 1, delay |-> 2] >>
    ELSE << [index |-> 3, delay |-> 1] >>

\* Sequence objects made with Sequence.create_cycle
Cycles == {"water"}

\* the delays of the ColorStrip list each one was created from
CycleDelays(seq) == << 2, 1 >>

\* loop arguments handed to Sprite.set_animation
LoopInputs == {0, 1, 2}

\* sprites the program animates
AnimatedSprites == {0}

\* color-cycle animation slots the program uses
Animations == {0}

\* animation of a sprite that never had one
NoAnimation ==
  [state |-> "Disabled", seq |-> None, pos |-> 0, timer |-> 0,
   loop |-> 0, left |-> 0, picture |-> 0, ticks |-> 0]

\* color-cycle animation of a slot that never had one
NoPaletteAnimation ==
  [state |-> "Disabled", seq |-> None, pos |-> 0, timer |-> 0,
   blend |-> FALSE, ticks |-> 0, rot |-> 0]

(* ------------------- native engine: animation engine -------------------- *)

\* TLN_SetSpriteAnimation: start the sequence at its first step
TLN_SetSpriteAnimation(a, seq, loop) ==
  [state |-> "Running", seq |-> seq, pos |-> 1,
   timer |-> SequenceFrames(seq)[1].delay,
   loop |-> loop, left |-> loop,
   picture |-> SequenceFrames(seq)[1].index, ticks |-> 0]

\* pause that does not look at the state of the animation
TLN_PauseSpriteAnimation_any(a) == [a EXCEPT !.state = "Paused"]

\* TLN_PauseSpriteAnimation: only a running animation is paused
TLN_PauseSpriteAnimation(a) ==
  IF a.state = "Running" THEN [a EXCEPT !.state = "Paused"] ELSE a

\* TLN_ResumeSpriteAnimation: only a paused animation resumes
TLN_ResumeSpriteAnimation(a) ==
  IF a.state = "Paused" THEN [a EXCEPT !.state = "Running"] ELSE a

\* TLN_DisableSpriteAnimation
TLN_DisableSpriteAnimation(a) == [a EXCEPT !.state = "Disabled"]

\* TLN_GetAnimationState: FALSE once the sequence has finished
TLN_GetAnimationState(a) == a.state # "Disabled"

\* one tick, with the end of the last loop detected one loop late
UpdateSpriteAnimation_late(a) ==
  IF a.state # "Running" THEN a
  ELSE
    LET frames == SequenceFrames(a.seq)
        b == [a EXCEPT !.ticks = @ + 1]
    IN IF a.timer - 1 > 0 THEN [b EXCEPT !.timer = @ - 1]
       ELSE IF a.pos < Len(frames)
         THEN [b EXCEPT !.pos = @ + 1,
                        !.timer = frames[a.pos + 1].delay,
                        !.picture = frames[a.pos + 1].index]
       ELSE IF a.loop # 0 /\ a.left <= 0
         THEN [b EXCEPT !.state = "Disabled", !.timer = 0, !.left = 0]
       ELSE [b EXCEPT !.pos = 1,
                      !.timer = frames[1].delay,
                      !.picture = frames[1].index,
                      !.left = IF a.loop = 0 THEN 0 ELSE @ - 1]

\* one tick that changes step without looking at the counter
UpdateSpriteAnimation_every_tick(a) ==
  IF a.state # "Running" THEN a
  ELSE
    LET frames == SequenceFrames(a.seq)
        b == [a EXCEPT !.ticks = @ + 1]
        n == (a.pos % Len(frames)) + 1
    IN [b EXCEPT !.pos = n, !.timer = frames[n].delay,
                 !.picture = frames[n].index]

\* one tick of a sprite animation
UpdateSpriteAnimation(a) ==
  IF a.state # "Running" THEN a
  ELSE
    LET frames == SequenceFrames(a.seq)
        b == [a EXCEPT !.ticks = @ + 1]
    IN IF a.timer - 1 > 0 THEN [b EXCEPT !.timer = @ - 1]
       ELSE IF a.pos < Len(frames)
         THEN [b EXCEPT !.pos = @ + 1,
                        !.timer = frames[a.pos + 1].delay,
                        !.picture = frames[a.pos + 1].index]
       ELSE IF a.loop # 0 /\ a.left <= 1
         THEN [b EXCEPT !.state = "Disabled", !.timer = 0, !.left = 0]
       ELSE [b EXCEPT !.pos = 1,
                      !.timer = frames[1].delay,
                      !.picture = frames[1].index,
                      !.left = IF a.loop = 0 THEN 0 ELSE @ - 1]

\* TLN_SetPaletteAnimation: start the color cycle at its first strip
TLN_SetPaletteAnimation(p, seq, blend) ==
  [state |-> "Running", seq |-> seq, pos |-> 1,
   timer |-> CycleDelays(seq)[1], blend |-> blend, ticks |-> 0, rot |-> 0]

\* TLN_DisablePaletteAnimation
TLN_DisablePaletteAnimation(p) == [p EXCEPT !.state = "Disabled"]

\* one tick of a color-cycle animation: color cycles wrap forever
UpdatePaletteAnimation(p) ==
  IF p.state # "Running" THEN p
  ELSE
    LET delays == CycleDelays(p.seq)
        q == [p EXCEPT !.ticks = @ + 1]
        nxt == IF p.pos < Len(delays) THEN p.pos + 1 ELSE 1
    IN IF p.timer - 1 > 0 THEN [q EXCEPT !.timer = @ - 1]
       ELSE [q EXCEPT !.pos = nxt, !.timer = delays[nxt],
                      !.rot = (@ + 1) % PaletteSize]

\* entries of the palette
PaletteEntries == 0 .. PaletteSize - 1

\* color channels
Channels == 1 .. 3

\* the palette after rot discrete steps of the cycle: the entries rotated
\* by one position per step
DiscretePalette(base, rot) ==
  [e \in PaletteEntries |-> base[(e + rot) % PaletteSize]]

\* linear interpolation from a to b, weighted by elapsed / total
Interpolate(a, b, elapsed, total) ==
  (a * (total - elapsed) + b * elapsed) \div total

\* the palette an animation slot shows: the discrete state of the cycle or,
\* with blend, the interpolation between it and the next discrete state
ShownPalette(p, base) ==
  IF p.state = "Disabled" THEN base
  ELSE IF ~p.blend THEN DiscretePalette(base, p.rot)
  ELSE
    LET total == CycleDelays(p.seq)[p.pos]
        from == DiscretePalette(base, p.rot)
        to == DiscretePalette(base, p.rot + 1)
    IN [e \in PaletteEntries |->
          [c \in Channels |->
             Interpolate(from[e][c], to[e][c], total - p.timer, total)]]

\* an animation call on index n succeeds only for a slot of the current
\* context
AnimationIndexOk(n) == n \in Animations /\ current # NoContext

\* TLN_GetAvailableAnimation: first slot not in use, or -1
TLN_GetAvailableAnimation ==
  IF \A n \in Animations : pal_anim[n].state # "Disabled"
    THEN -1
    ELSE CHOOSE n \in Animations :
           /\ pal_anim[n].state = "Disabled"
           /\ \A m \in Animations : pal_anim[m].state = "Disabled" => n <= m

\* TLN_SetPaletteColor succeeds for an entry of the palette
TLN_SetPaletteColor_ok(entry) == entry \in PaletteEntries

\* TLN_SetPaletteColor
TLN_SetPaletteColor(pal, entry, color) == [pal EXCEPT ![entry] = color]

\* the animation engine advances every slot by one tick
UpdateAnimations ==
  /\ anim' = [s \in Sprites |-> UpdateSpriteAnimation(anim[s])]
  /\ pal_anim' = [n \in Animations |-> UpdatePaletteAnimation(pal_anim[n])]

(* --------------------- native engine: sprite slots ---------------------- *)

\* Spriteset objects the program has loaded
Spritesets == {"ss1", "ss2"}

\* a sprite slot that is not in use
NoSpriteState ==
  [spriteset |-> None, x |-> 0, y |-> 0, masked |-> FALSE, collide |-> FALSE]

\* mask region of an engine that never had one set
NoMaskRegion == << 0, -1 >>

\* scanlines a sprite spans downwards from its position
SpriteRows == 2

\* a sprite call on index s succeeds only for a slot of the current context
SpriteIndexOk(s) == s \in Sprites /\ current # NoContext

\* the flag bit is set in the flags word
HasFlag(flags, bit) == (flags \div bit) % 2 = 1

\* TLN_ConfigSprite succeeds for a slot of the engine and a spriteset
TLN_ConfigSprite_ok(s, spriteset) == SpriteIndexOk(s) /\ spriteset # None

\* TLN_ConfigSprite: the slot takes the spriteset and the flags
TLN_ConfigSprite(sp, spriteset, flags) ==
  [sp EXCEPT !.spriteset = spriteset, !.masked = HasFlag(flags, MASKED)]

\* TLN_SetSpriteSet succeeds for a slot of the engine and a spriteset
TLN_SetSpriteSet_ok(s, spriteset) == SpriteIndexOk(s) /\ spriteset # None

\* TLN_SetSpriteSet: the slot takes the spriteset
TLN_SetSpriteSet(sp, spriteset) == [sp EXCEPT !.spriteset = spriteset]

\* TLN_SetSpritePosition
TLN_SetSpritePosition(sp, x, y) == [sp EXCEPT !.x = x, !.y = y]

\* TLN_EnableSpriteCollision
TLN_EnableSpriteCollision(sp, mode) == [sp EXCEPT !.collide = mode]

\* TLN_EnableSpriteMasking
TLN_EnableSpriteMasking(sp, enable) == [sp EXCEPT !.masked = enable]

\* TLN_DisableSprite: the slot is free again
TLN_DisableSprite(sp) == [sp EXCEPT !.spriteset = None]

\* TLN_GetSpriteCollision: the result latched by the last completed frame
TLN_GetSpriteCollision(s) == s \in collision

\* slots that are in use
UsedSprites == { s \in Sprites : sprite[s].spriteset # None }

\* TLN_GetAvailableSprite: first slot not in use, or -1
TLN_GetAvailableSprite ==
  IF UsedSprites = Sprites
    THEN -1
    ELSE CHOOSE s \in Sprites \ UsedSprites :
           \A t \in Sprites \ UsedSprites : s <= t

\* scanline y lies inside the mask region
InMaskRegion(region, y) == region[1] <= y /\ y <= region[2]

\* sprites the sprite compositor draws on scanline y
SpritesOnLine(y) ==
  { s \in UsedSprites :
      /\ sprite[s].y <= y /\ y < sprite[s].y + SpriteRows
      /\ ~(sprite[s].masked /\ InMaskRegion(mask_region, y)) }

\* collision-enabled sprites that overlap another one on scanline y
CollisionsOnLine(y) ==
  { s \in SpritesOnLine(y) :
      /\ sprite[s].collide
      /\ \E t \in SpritesOnLine(y) \ {s} :
           sprite[t].collide /\ sprite[t].x = sprite[s].x }

\* sprite pass of the scanline being drawn
SpritePass ==
  /\ drawn' = [drawn EXCEPT ![line] = SpritesOnLine(line)]
  /\ collision_acc' = collision_acc \cup CollisionsOnLine(line)
  /\ UNCHANGED <<collision, sprite_done>>

(* ------------------- native engine: frame scheduler --------------------- *)

\* scanline of the render target that was never composited
Blank == << >>

\* pixels of scanline y for the layer positions pos
RenderLine(pos, y) == << pos[0][1] >>

\* the compositors redraw every scanline up to y from the current state
Composite_retroactive(tgt, pos, y) ==
  [l \in DOMAIN tgt |-> IF l <= y THEN RenderLine(pos, l) ELSE tgt[l]]

\* composite scanline y into the render target
Composite(tgt, pos, y) == [tgt EXCEPT ![y] = RenderLine(pos, y)]

\* Idle -> RenderingFrame: one animation tick, whatever the height
TLN_BeginFrame(n) ==
  /\ sched = "Idle"
  /\ sched' = "RenderingFrame"
  /\ line' = 0
  /\ frame' = n
  /\ rasterCalls' = << >>
  /\ frameCalls' = << >>
  /\ frames_drawn' = frames_drawn + 1
  /\ UpdateAnimations
  /\ collision_acc' = {}
  /\ UNCHANGED <<drawn, collision, sprite_done>>
  /\ UNCHANGED staticVars
  /\ UNCHANGED auxVars
  /\ events' = << >>

\* what a raster callback may do on a scanline: leave the layers alone or,
\* like raster_effect of samples/platformer.py, call Layer.set_position
RasterMoves ==
  {[move |-> FALSE, x |-> 0]} \cup {[move |-> TRUE, x |-> v] : v \in PosInputs}

\* the layer positions after the registered raster callback has run
RasterCallbackBody(pos, m) ==
  IF tln_cb_raster # None /\ m.move
    THEN [pos EXCEPT ![0] = << PyInt(m.x), 0 >>]
    ELSE pos

\* what the frame in progress does, in order, as begin and end marks: the
\* raster callback on a scanline, if one is registered
RasterEvents(y) ==
  IF tln_cb_raster # None
    THEN << [what |-> "raster", arg |-> y, mark |-> "begin"],
            [what |-> "raster", arg |-> y, mark |-> "end"] >>
    ELSE << >>

\* the compositing of a scanline
CompositeEvents(y) ==
  << [what |-> "composite", arg |-> y, mark |-> "begin"],
     [what |-> "composite", arg |-> y, mark |-> "end"] >>

\* the frame callback, if one is registered
FrameEvents(n) ==
  IF tln_cb_frame # None
    THEN << [what |-> "frame", arg |-> n, mark |-> "begin"],
            [what |-> "frame", arg |-> n, mark |-> "end"] >>
    ELSE << >>

\* two activities of which the second begins before the first has ended
Interleaved(a, b) ==
  IF a = << >> \/ b = << >> THEN a \o b ELSE << a[1], b[1], a[2], b[2] >>

\* a scanline whose compositing starts while the raster callback is running
TLN_DrawNextScanline_overlapped ==
  /\ sched = "RenderingFrame"
  /\ \E m \in RasterMoves :
       /\ layer_pos' = RasterCallbackBody(layer_pos, m)
       /\ target' = Composite(target, RasterCallbackBody(layer_pos, m), line)
  /\ rasterCalls' =
       IF tln_cb_raster # None
         THEN Append(rasterCalls, [fn |-> tln_cb_raster, arg |-> line])
         ELSE rasterCalls
  /\ line' = line + 1
  /\ sched' = IF line + 1 >= height THEN "FrameComplete" ELSE "RenderingFrame"
  /\ UNCHANGED <<frame, height, tln_cb_raster, tln_cb_frame, cb_raster_func,
                 cb_frame_func, window_created, num_frame, caller, frameCalls,
                 frames_drawn>>
  /\ UNCHANGED <<layerVars, spriteVars, animVars, tileVars, raised>>
  /\ SpritePass
  /\ UNCHANGED staticVars
  /\ UNCHANGED auxVars
  /\ events' = events \o Interleaved(RasterEvents(line), CompositeEvents(line))

\* a scanline that also advances the animation engine
TLN_DrawNextScanline_ticks ==
  /\ sched = "RenderingFrame"
  /\ \E m \in RasterMoves :
       /\ layer_pos' = RasterCallbackBody(layer_pos, m)
       /\ target' = Composite(target, RasterCallbackBody(layer_pos, m), line)
  /\ rasterCalls' =
       IF tln_cb_raster # None
         THEN Append(rasterCalls, [fn |-> tln_cb_raster, arg |-> line])
         ELSE rasterCalls
  /\ line' = line + 1
  /\ sched' = IF line + 1 >= height THEN "FrameComplete" ELSE "RenderingFrame"
  /\ UpdateAnimations
  /\ UNCHANGED <<frame, height, tln_cb_raster, tln_cb_frame, cb_raster_func,
                 cb_frame_func, window_created, num_frame, caller, frameCalls,
                 frames_drawn>>
  /\ UNCHANGED <<layerVars, spriteVars, tileVars, raised>>
  /\ SpritePass
  /\ UNCHANGED staticVars
  /\ UNCHANGED auxVars
  /\ events' = events \o RasterEvents(line) \o CompositeEvents(line)

\* one scanline: raster callback first, then the compositors
TLN_DrawNextScanline ==
  /\ sched = "RenderingFrame"
  /\ \E m \in RasterMoves :
       /\ layer_pos' = RasterCallbackBody(layer_pos, m)
       /\ target' = Composite(target, RasterCallbackBody(layer_pos, m), line)
  /\ rasterCalls' =
       IF tln_cb_raster # None
         THEN Append(rasterCalls, [fn |-> tln_cb_raster, arg |-> line])
         ELSE rasterCalls
  /\ line' = line + 1
  /\ sched' = IF line + 1 >= height THEN "FrameComplete" ELSE "RenderingFrame"
  /\ UNCHANGED <<frame, height, tln_cb_raster, tln_cb_frame, cb_raster_func,
                 cb_frame_func, window_created, num_frame, caller, frameCalls,
                 frames_drawn>>
  /\ UNCHANGED <<layerVars, spriteVars, animVars, tileVars, raised>>
  /\ SpritePass
  /\ UNCHANGED staticVars
  /\ UNCHANGED auxVars
  /\ events' = events \o RasterEvents(line) \o CompositeEvents(line)

\* FrameComplete -> Idle: the frame callback, then the drawing call returns;
\* Window.process then counts the frame
TLN_EndFrame ==
  /\ sched = "FrameComplete"
  /\ frameCalls' =
       IF tln_cb_frame # None
         THEN Append(frameCalls, [fn |-> tln_cb_frame, arg |-> frame])
         ELSE frameCalls
  /\ sched' = "Idle"
  /\ caller' = None
  /\ num_frame' = IF caller = "process" THEN num_frame + 1 ELSE num_frame
  /\ raised' = FALSE
  /\ UNCHANGED <<line, frame, height, tln_cb_raster, tln_cb_frame, target,
                 cb_raster_func, cb_frame_func, window_created, rasterCalls,
                 frames_drawn>>
  /\ UNCHANGED <<layer_pos, layerVars, spriteVars, animVars, tileVars>>
  /\ collision' = collision_acc
  /\ sprite_done' = sprite
  /\ UNCHANGED <<drawn, collision_acc>>
  /\ UNCHANGED staticVars
  /\ UNCHANGED auxVars
  /\ events' = events \o FrameEvents(frame)

(* --------------------------- binding: Engine ---------------------------- *)

\* set_raster_callback handing its callback to TLN_SetFrameCallback
Engine_set_raster_callback_wrong_slot(cb) ==
  /\ sched = "Idle"
  /\ cb_raster_func' = cb
  /\ tln_cb_frame' = cb_raster_func'
  /\ raised' = FALSE
  /\ UNCHANGED <<sched, line, frame, height, tln_cb_raster, target,
                 cb_frame_func, window_created, num_frame, caller,
                 rasterCalls, frameCalls, frames_drawn>>
  /\ UNCHANGED <<layer_pos, layerVars, spriteVars, animVars, tileVars>>
  /\ UNCHANGED extVars
  /\ UNCHANGED <<auxVars, events>>

\* set_raster_callback that returns on None without the native call
Engine_set_raster_callback_returns_on_none(cb) ==
  /\ sched = "Idle"
  /\ cb_raster_func' = cb
  /\ tln_cb_raster' = IF cb = None THEN tln_cb_raster ELSE cb_raster_func'
  /\ raised' = FALSE
  /\ UNCHANGED <<sched, line, frame, height, tln_cb_frame, target,
                 cb_frame_func, window_created, num_frame, caller,
                 rasterCalls, frameCalls, frames_drawn>>
  /\ UNCHANGED <<layer_pos, layerVars, spriteVars, animVars, tileVars>>
  /\ UNCHANGED extVars
  /\ UNCHANGED <<auxVars, events>>

\* Engine.set_raster_callback
Engine_set_raster_callback(cb) ==
  /\ sched = "Idle"
  /\ cb_raster_func' = cb
  /\ tln_cb_raster' = cb_raster_func'
  /\ raised' = FALSE
  /\ UNCHANGED <<sched, line, frame, height, tln_cb_frame, target,
                 cb_frame_func, window_created, num_frame, caller,
                 rasterCalls, frameCalls, frames_drawn>>
  /\ UNCHANGED <<layer_pos, layerVars, spriteVars, animVars, tileVars>>
  /\ UNCHANGED extVars
  /\ UNCHANGED <<auxVars, events>>

\* set_frame_callback handing its callback to TLN_SetRasterCallback
Engine_set_frame_callback_wrong_slot(cb) ==
  /\ sched = "Idle"
  /\ cb_frame_func' = cb
  /\ tln_cb_raster' = cb_frame_func'
  /\ raised' = FALSE
  /\ UNCHANGED <<sched, line, frame, height, tln_cb_frame, target,
                 cb_raster_func, window_created, num_frame, caller,
                 rasterCalls, frameCalls, frames_drawn>>
  /\ UNCHANGED <<layer_pos, layerVars, spriteVars, animVars, tileVars>>
  /\ UNCHANGED extVars
  /\ UNCHANGED <<auxVars, events>>

\* Engine.set_frame_callback
Engine_set_frame_callback(cb) ==
  /\ sched = "Idle"
  /\ cb_frame_func' = cb
  /\ tln_cb_frame' = cb_frame_func'
  /\ raised' = FALSE
  /\ UNCHANGED <<sched, line, frame, height, tln_cb_raster, target,
                 cb_raster_func, window_created, num_frame, caller,
                 rasterCalls, frameCalls, frames_drawn>>
  /\ UNCHANGED <<layer_pos, layerVars, spriteVars, animVars, tileVars>>
  /\ UNCHANGED extVars
  /\ UNCHANGED <<auxVars, events>>

\* frame numbers handed to Engine.update_frame
FrameInputs == {0, 1}

\* Engine.update_frame
Engine_update_frame(n) ==
  /\ frames_drawn < MaxFrames
  /\ TLN_BeginFrame(n)
  /\ caller' = "update_frame"
  /\ UNCHANGED <<height, tln_cb_raster, tln_cb_frame, target, cb_raster_func,
                 cb_frame_func, window_created, num_frame>>
  /\ UNCHANGED <<layer_pos, layerVars, spriteVars, tileVars, raised>>

(* --------------------------- binding: Window ---------------------------- *)

\* create that starts counting frames again when the window exists
Window_create_restarts(ok) ==
  /\ sched = "Idle"
  /\ IF window_created
       THEN /\ num_frame' = 0
            /\ UNCHANGED <<window_created, window_obj, native_windows>>
            /\ window_out' = window_obj
            /\ window_by' = "create"
            /\ raised' = FALSE
       ELSE IF ok
         THEN /\ window_created' = TRUE
              /\ num_frame' = 0
              /\ window_obj' = native_windows
              /\ native_windows' = native_windows + 1
              /\ window_out' = native_windows
              /\ window_by' = "create"
              /\ raised' = FALSE
         ELSE /\ UNCHANGED <<window_created, num_frame, winVars>>
              /\ raised' = TRUE
  /\ UNCHANGED <<sched, line, frame, height, tln_cb_raster, tln_cb_frame,
                 target, cb_raster_func, cb_frame_func, caller, rasterCalls,
                 frameCalls, frames_drawn>>
  /\ UNCHANGED <<layer_pos, layerVars, spriteVars, animVars, tileVars>>
  /\ UNCHANGED extVars
  /\ UNCHANGED <<stripVars, pack_alive, pos_call, events>>

\* create that does not look at _window_created
Window_create_again(ok) ==
  /\ sched = "Idle"
  /\ IF FALSE
       THEN /\ UNCHANGED <<window_created, num_frame, window_obj, native_windows>>
            /\ window_out' = window_obj
            /\ window_by' = "create"
            /\ raised' = FALSE
       ELSE IF ok
         THEN /\ window_created' = TRUE
              /\ num_frame' = 0
              /\ window_obj' = native_windows
              /\ native_windows' = native_windows + 1
              /\ window_out' = native_windows
              /\ window_by' = "create"
              /\ raised' = FALSE
         ELSE /\ UNCHANGED <<window_created, num_frame, winVars>>
              /\ raised' = TRUE
  /\ UNCHANGED <<sched, line, frame, height, tln_cb_raster, tln_cb_frame,
                 target, cb_raster_func, cb_frame_func, caller, rasterCalls,
                 frameCalls, frames_drawn>>
  /\ UNCHANGED <<layer_pos, layerVars, spriteVars, animVars, tileVars>>
  /\ UNCHANGED extVars
  /\ UNCHANGED <<stripVars, pack_alive, pos_call, events>>

\* Window.create: ok is the result of TLN_CreateWindow; a new Window object
\* is made, and bound to _window, only when no window was created before
Window_create(ok) ==
  /\ sched = "Idle"
  /\ IF window_created
       THEN /\ UNCHANGED <<window_created, num_frame, window_obj, native_windows>>
            /\ window_out' = window_obj
            /\ window_by' = "create"
            /\ raised' = FALSE
       ELSE IF ok
         THEN /\ window_created' = TRUE
              /\ num_frame' = 0
              /\ window_obj' = native_windows
              /\ native_windows' = native_windows + 1
              /\ window_out' = native_windows
              /\ window_by' = "create"
              /\ raised' = FALSE
         ELSE /\ UNCHANGED <<window_created, num_frame, winVars>>
              /\ raised' = TRUE
  /\ UNCHANGED <<sched, line, frame, height, tln_cb_raster, tln_cb_frame,
                 target, cb_raster_func, cb_frame_func, caller, rasterCalls,
                 frameCalls, frames_drawn>>
  /\ UNCHANGED <<layer_pos, layerVars, spriteVars, animVars, tileVars>>
  /\ UNCHANGED extVars
  /\ UNCHANGED <<stripVars, pack_alive, pos_call, events>>

\* Window.create_threaded: reading _window raises NameError as long as the
\* name is not bound; once Window.create has bound it, it is a Window object
\* and is returned. _window is never bound to None, so the call of
\* TLN_CreateWindowThread that follows the test is not reached
Window_create_threaded ==
  /\ sched = "Idle"
  /\ IF window_obj = NoWindow
       THEN /\ raised' = TRUE
            /\ UNCHANGED winVars
       ELSE /\ window_out' = window_obj
            /\ window_by' = "create_threaded"
            /\ raised' = FALSE
            /\ UNCHANGED <<window_obj, native_windows>>
  /\ UNCHANGED <<frameVars, layer_pos, layerVars, spriteVars, animVars, tileVars>>
  /\ UNCHANGED extVars
  /\ UNCHANGED <<stripVars, pack_alive, pos_call, events>>

\* Window.process: draws the frame num_frame
Window_process ==
  /\ window_created
  /\ frames_drawn < MaxFrames
  /\ TLN_BeginFrame(num_frame)
  /\ caller' = "process"
  /\ UNCHANGED <<height, tln_cb_raster, tln_cb_frame, target, cb_raster_func,
                 cb_frame_func, window_created, num_frame>>
  /\ UNCHANGED <<layer_pos, layerVars, spriteVars, tileVars, raised>>

\* layer indexes the program uses: the last one is out of range
LayerInputs == 0 .. NumLayers

(* ------------------- native engine: layer compositor -------------------- *)

\* a layer in plain blit mode
NoMode == [scaling |-> FALSE, transform |-> FALSE, pixel_mapping |-> FALSE]

\* TLN_SetLayerScaling: scaling on, the other modes off
TLN_SetLayerScaling(m) ==
  [scaling |-> TRUE, transform |-> FALSE, pixel_mapping |-> FALSE]

\* TLN_SetLayerTransform: affine transform on, the other modes off
TLN_SetLayerTransform(m) ==
  [scaling |-> FALSE, transform |-> TRUE, pixel_mapping |-> FALSE]

\* TLN_SetLayerPixelMapping: pixel mapping on, the other modes off
TLN_SetLayerPixelMapping(m) ==
  [scaling |-> FALSE, transform |-> FALSE, pixel_mapping |-> TRUE]

\* TLN_ResetLayerMode: every mode off
TLN_ResetLayerMode(m) == NoMode

\* a layer call on index l succeeds only for a layer of the current context
LayerIndexOk(l) == l \in Layers /\ current # NoContext

\* Tilemap, Tileset and Bitmap objects the program has loaded
Tilemaps == {"tm1", "tm2"}

Tilesets == {"ts1"}

Bitmaps == {"bm1", "bm2"}

\* a layer without content source
NoContent == [kind |-> "none", obj |-> None]

\* TLN_GetLayerWidth and TLN_GetLayerHeight of a layer showing obj
ContentSize(obj) ==
  IF obj = "tm1" THEN << 64, 32 >>
  ELSE IF obj = "tm2" THEN << 32, 32 >>
  ELSE << 40, 24 >>

\* TLN_SetLayer succeeds with a tileset, given or attached to the tilemap
TLN_SetLayer_ok(l, tileset, tilemap) ==
  /\ LayerIndexOk(l)
  /\ tileset # None \/ tilemap_tileset[tilemap] # None

\* TLN_SetLayerTilemap succeeds when the tilemap has a tileset
TLN_SetLayerTilemap_ok(l, tilemap) ==
  /\ LayerIndexOk(l)
  /\ tilemap_tileset[tilemap] # None

\* TLN_SetLayerBitmap
TLN_SetLayerBitmap_ok(l, bitmap) == LayerIndexOk(l)

(* ---------------------------- binding: Layer ---------------------------- *)

\* the last two elements of a sequence
LastTwo(q) == IF Len(q) <= 2 THEN q ELSE SubSeq(q, Len(q) - 1, Len(q))

\* the render-mode calls of Layer: ok is the native result, mode the
\* layer's new native mode, name the method called
LayerModeCall(l, ok, mode, name) ==
  /\ sched = "Idle"
  /\ IF ok
       THEN /\ layer_mode' = [layer_mode EXCEPT ![l] = mode]
            /\ layer_last' = [layer_last EXCEPT ![l] = LastTwo(Append(@, name))]
            /\ raised' = FALSE
       ELSE /\ UNCHANGED <<layer_mode, layer_last>>
            /\ raised' = TRUE
  /\ UNCHANGED <<layer_content, layer_tilemap, layer_bitmap, layer_objectlist,
                 layer_size, tilemap_tileset>>
  /\ UNCHANGED <<frameVars, layer_pos, spriteVars, animVars, tileVars>>
  /\ UNCHANGED extVars
  /\ UNCHANGED <<auxVars, events>>

\* Layer.set_scaling
Layer_set_scaling(l) ==
  LayerModeCall(l, LayerIndexOk(l),
                IF LayerIndexOk(l) THEN TLN_SetLayerScaling(layer_mode[l]) ELSE NoMode,
                "scaling")

\* set_transform forwarding to TLN_SetLayerScaling
Layer_set_transform_as_scaling(l) ==
  LayerModeCall(l, LayerIndexOk(l),
                IF LayerIndexOk(l) THEN TLN_SetLayerScaling(layer_mode[l]) ELSE NoMode,
                "transform")

\* Layer.set_transform
Layer_set_transform(l) ==
  LayerModeCall(l, LayerIndexOk(l),
                IF LayerIndexOk(l) THEN TLN_SetLayerTransform(layer_mode[l]) ELSE NoMode,
                "transform")

\* Layer.set_pixel_mapping
Layer_set_pixel_mapping(l) ==
  LayerModeCall(l, LayerIndexOk(l),
                IF LayerIndexOk(l) THEN TLN_SetLayerPixelMapping(layer_mode[l]) ELSE NoMode,
                "pixel_mapping")

\* Layer.reset_mode
Layer_reset_mode(l) ==
  LayerModeCall(l, LayerIndexOk(l),
                IF LayerIndexOk(l) THEN TLN_ResetLayerMode(layer_mode[l]) ELSE NoMode,
                "reset")

\* coordinates handed to Layer.set_position, in tenths of a pixel: whole,
\* fractional, and beyond the size of every content
WidePosInputs == PosInputs \cup {700}

\* TLN_SetLayerPosition: the position wraps modulo the size of the content
TLN_SetLayerPosition(l, x, y) ==
  IF layer_content[l] = NoContent
    THEN << x, y >>
    ELSE << x % ContentSize(layer_content[l].obj)[1],
            y % ContentSize(layer_content[l].obj)[2] >>

\* Layer.set_position: int(x) and int(y) go to TLN_SetLayerPosition
Layer_set_position(l, x, y) ==
  /\ sched = "Idle"
  /\ pos_call' = << l, x, y >>
  /\ IF LayerIndexOk(l)
       THEN /\ layer_pos' =
                 [layer_pos EXCEPT
                    ![l] = TLN_SetLayerPosition(l, PyInt(x), PyInt(y))]
            /\ raised' = FALSE
       ELSE /\ UNCHANGED layer_pos
            /\ raised' = TRUE
  /\ UNCHANGED <<frameVars, layerVars, spriteVars, animVars, tileVars>>
  /\ UNCHANGED extVars
  /\ UNCHANGED <<winVars, stripVars, pack_alive, events>>

\* Layer.setup: bitmap and objectlist are left as they are
Layer_setup(l, tilemap, tileset) ==
  /\ sched = "Idle"
  /\ IF TLN_SetLayer_ok(l, tileset, tilemap)
       THEN /\ layer_content' =
                 [layer_content EXCEPT ![l] = [kind |-> "tilemap", obj |-> tilemap]]
            /\ layer_size' = [layer_size EXCEPT ![l] = ContentSize(tilemap)]
            /\ layer_tilemap' = [layer_tilemap EXCEPT ![l] = tilemap]
            /\ tilemap_tileset' =
                 IF tileset # None
                   THEN [tilemap_tileset EXCEPT ![tilemap] = tileset]
                   ELSE tilemap_tileset
            /\ UNCHANGED <<layer_bitmap, layer_objectlist>>
            /\ raised' = FALSE
       ELSE /\ UNCHANGED <<layer_content, layer_size, layer_tilemap,
                           layer_bitmap, layer_objectlist, tilemap_tileset>>
            /\ raised' = TRUE
  /\ UNCHANGED <<layer_mode, layer_last>>
  /\ UNCHANGED <<frameVars, layer_pos, spriteVars, animVars, tileVars>>
  /\ UNCHANGED extVars
  /\ UNCHANGED <<auxVars, events>>

\* Layer.set_tilemap
Layer_set_tilemap(l, tilemap) ==
  /\ sched = "Idle"
  /\ IF TLN_SetLayerTilemap_ok(l, tilemap)
       THEN /\ layer_content' =
                 [layer_content EXCEPT ![l] = [kind |-> "tilemap", obj |-> tilemap]]
            /\ layer_size' = [layer_size EXCEPT ![l] = ContentSize(tilemap)]
            /\ layer_tilemap' = [layer_tilemap EXCEPT ![l] = tilemap]
            /\ layer_bitmap' = [layer_bitmap EXCEPT ![l] = None]
            /\ layer_objectlist' = [layer_objectlist EXCEPT ![l] = None]
            /\ raised' = FALSE
       ELSE /\ UNCHANGED <<layer_content, layer_size, layer_tilemap,
                           layer_bitmap, layer_objectlist>>
            /\ raised' = TRUE
  /\ UNCHANGED <<layer_mode, layer_last, tilemap_tileset>>
  /\ UNCHANGED <<frameVars, layer_pos, spriteVars, animVars, tileVars>>
  /\ UNCHANGED extVars
  /\ UNCHANGED <<auxVars, events>>

\* Layer.set_bitmap
Layer_set_bitmap(l, bitmap) ==
  /\ sched = "Idle"
  /\ IF TLN_SetLayerBitmap_ok(l, bitmap)
       THEN /\ layer_content' =
                 [layer_content EXCEPT ![l] = [kind |-> "bitmap", obj |-> bitmap]]
            /\ layer_size' = [layer_size EXCEPT ![l] = ContentSize(bitmap)]
            /\ layer_bitmap' = [layer_bitmap EXCEPT ![l] = bitmap]
            /\ layer_tilemap' = [layer_tilemap EXCEPT ![l] = None]
            /\ layer_objectlist' = [layer_objectlist EXCEPT ![l] = None]
            /\ raised' = FALSE
       ELSE /\ UNCHANGED <<layer_content, layer_size, layer_tilemap,
                           layer_bitmap, layer_objectlist>>
            /\ raised' = TRUE
  /\ UNCHANGED <<layer_mode, layer_last, tilemap_tileset>>
  /\ UNCHANGED <<frameVars, layer_pos, spriteVars, animVars, tileVars>>
  /\ UNCHANGED extVars
  /\ UNCHANGED <<auxVars, events>>

(* ------------------- native engine: sprite compositor ------------------- *)

\* end of the z-order list
NoSprite == -1

RECURSIVE SpriteChain(_, _, _)
\* the sprites reached from s along the next links, each one once
SpriteChain(s, next, seen) ==
  IF s = NoSprite \/ s \in seen
    THEN << >>
    ELSE << s >> \o SpriteChain(next[s], next, seen \cup {s})

\* paint order of a sprite pass: the list that starts at first
SpriteOrder(first, next) == SpriteChain(first, next, {})

\* TLN_SetFirstSprite
TLN_SetFirstSprite(s) == first_sprite' = s

\* TLN_SetNextSprite
TLN_SetNextSprite(s, n) == next_sprite' = [next_sprite EXCEPT ![s] = n]

\* the sprite compositor paints the sprites of a scanline
SpriteCompositor ==
  /\ painted' = SpriteOrder(first_sprite, next_sprite)
  /\ UNCHANGED <<first_sprite, next_sprite, zorder_calls>>
  /\ UNCHANGED <<frameVars, layer_pos, layerVars, animVars, tileVars, raised>>
  /\ UNCHANGED extVars
  /\ UNCHANGED <<auxVars, events>>

(* --------------------------- binding: Sprite ---------------------------- *)

\* Sprite.set_first
Sprite_set_first(s) ==
  /\ sched = "Idle"
  /\ TLN_SetFirstSprite(s)
  /\ zorder_calls' = [zorder_calls EXCEPT !.first = s]
  /\ raised' = FALSE
  /\ UNCHANGED <<next_sprite, painted>>
  /\ UNCHANGED <<frameVars, layer_pos, layerVars, animVars, tileVars>>
  /\ UNCHANGED extVars
  /\ UNCHANGED <<auxVars, events>>

\* set_next handing its two sprite indexes over in the wrong order
Sprite_set_next_swapped(s, n) ==
  /\ sched = "Idle"
  /\ IF n \in Sprites THEN TLN_SetNextSprite(n, s) ELSE UNCHANGED next_sprite
  /\ zorder_calls' = [zorder_calls EXCEPT !.next[s] = n]
  /\ raised' = FALSE
  /\ UNCHANGED <<first_sprite, painted>>
  /\ UNCHANGED <<frameVars, layer_pos, layerVars, animVars, tileVars>>
  /\ UNCHANGED extVars
  /\ UNCHANGED <<auxVars, events>>

\* Sprite.set_next
Sprite_set_next(s, n) ==
  /\ sched = "Idle"
  /\ TLN_SetNextSprite(s, n)
  /\ zorder_calls' = [zorder_calls EXCEPT !.next[s] = n]
  /\ raised' = FALSE
  /\ UNCHANGED <<first_sprite, painted>>
  /\ UNCHANGED <<frameVars, layer_pos, layerVars, animVars, tileVars>>
  /\ UNCHANGED extVars
  /\ UNCHANGED <<auxVars, events>>

\* the animation calls of Sprite: a is the sprite's new native animation
SpriteAnimationCall(s, a) ==
  /\ sched = "Idle"
  /\ anim' = [anim EXCEPT ![s] = a]
  /\ raised' = FALSE
  /\ UNCHANGED pal_anim
  /\ UNCHANGED <<frameVars, layer_pos, layerVars, spriteVars, tileVars>>
  /\ UNCHANGED extVars
  /\ UNCHANGED <<auxVars, events>>

\* Sprite.set_animation
Sprite_set_animation(s, sequence, loop) ==
  SpriteAnimationCall(s, TLN_SetSpriteAnimation(anim[s], sequence, loop))

\* Sprite.pause_animation
Sprite_pause_animation(s) ==
  SpriteAnimationCall(s, TLN_PauseSpriteAnimation(anim[s]))

\* Sprite.resume_animation
Sprite_resume_animation(s) ==
  SpriteAnimationCall(s, TLN_ResumeSpriteAnimation(anim[s]))

\* Sprite.disable_animation
Sprite_disable_animation(s) ==
  SpriteAnimationCall(s, TLN_DisableSpriteAnimation(anim[s]))

\* Sprite.get_animation_state
Sprite_get_animation_state(s) == TLN_GetAnimationState(anim[s])

\* sprite indexes the program uses: the last one is out of range
SpriteInputs == 0 .. NumSprites

\* flags arguments handed to Sprite.setup
FlagInputs == {0, MASKED}

\* the native slot after a call on index s: new where the call succeeded
SpriteSlots(s, ok, new) == IF ok THEN [sprite EXCEPT ![s] = new] ELSE sprite

\* Sprite.setup: the attribute is assigned before the result is looked at
Sprite_setup(s, spriteset, flags) ==
  /\ sched = "Idle"
  /\ sprite' =
       SpriteSlots(s, TLN_ConfigSprite_ok(s, spriteset),
                   IF SpriteIndexOk(s)
                     THEN TLN_ConfigSprite(sprite[s], spriteset, flags)
                     ELSE NoSpriteState)
  /\ sprite_spriteset' = [sprite_spriteset EXCEPT ![s] = spriteset]
  /\ raised' = ~TLN_ConfigSprite_ok(s, spriteset)
  /\ masking_call' =
       IF TLN_ConfigSprite_ok(s, spriteset)
         THEN [masking_call EXCEPT ![s] = HasFlag(flags, MASKED)]
         ELSE masking_call
  /\ UNCHANGED <<maskVars, outVars, palVars, objVars, passVars>>
  /\ UNCHANGED <<frameVars, layer_pos, layerVars, spriteVars, animVars, tileVars>>
  /\ UNCHANGED <<auxVars, events>>

\* Sprite.set_spriteset: the attribute is assigned before the result is
\* looked at
Sprite_set_spriteset(s, spriteset) ==
  /\ sched = "Idle"
  /\ sprite' =
       SpriteSlots(s, TLN_SetSpriteSet_ok(s, spriteset),
                   IF SpriteIndexOk(s)
                     THEN TLN_SetSpriteSet(sprite[s], spriteset)
                     ELSE NoSpriteState)
  /\ sprite_spriteset' = [sprite_spriteset EXCEPT ![s] = spriteset]
  /\ raised' = ~TLN_SetSpriteSet_ok(s, spriteset)
  /\ UNCHANGED masking_call
  /\ UNCHANGED <<maskVars, outVars, palVars, objVars, passVars>>
  /\ UNCHANGED <<frameVars, layer_pos, layerVars, spriteVars, animVars, tileVars>>
  /\ UNCHANGED <<auxVars, events>>

\* the Sprite methods that forward to one native call and raise on failure
SpriteCall(s, new) ==
  /\ sched = "Idle"
  /\ sprite' = SpriteSlots(s, SpriteIndexOk(s), new)
  /\ raised' = ~SpriteIndexOk(s)
  /\ UNCHANGED sprite_spriteset
  /\ UNCHANGED <<maskVars, outVars, palVars, objVars, passVars>>
  /\ UNCHANGED <<frameVars, layer_pos, layerVars, spriteVars, animVars, tileVars>>
  /\ UNCHANGED <<auxVars, events>>

\* Sprite.set_position
Sprite_set_position(s, x, y) ==
  /\ SpriteCall(s, IF SpriteIndexOk(s)
                     THEN TLN_SetSpritePosition(sprite[s], x, y)
                     ELSE NoSpriteState)
  /\ UNCHANGED masking_call

\* Sprite.enable_collision
Sprite_enable_collision(s, mode) ==
  /\ SpriteCall(s, IF SpriteIndexOk(s)
                     THEN TLN_EnableSpriteCollision(sprite[s], mode)
                     ELSE NoSpriteState)
  /\ UNCHANGED masking_call

\* Sprite.disable
Sprite_disable(s) ==
  /\ SpriteCall(s, IF SpriteIndexOk(s)
                     THEN TLN_DisableSprite(sprite[s])
                     ELSE NoSpriteState)
  /\ UNCHANGED masking_call

\* enable_masking that always turns masking on
Sprite_enable_masking_always(s, enable) ==
  /\ SpriteCall(s, IF SpriteIndexOk(s)
                     THEN TLN_EnableSpriteMasking(sprite[s], TRUE)
                     ELSE NoSpriteState)
  /\ masking_call' =
       IF SpriteIndexOk(s) THEN [masking_call EXCEPT ![s] = enable]
                           ELSE masking_call

\* Sprite.enable_masking
Sprite_enable_masking(s, enable) ==
  /\ SpriteCall(s, IF SpriteIndexOk(s)
                     THEN TLN_EnableSpriteMasking(sprite[s], enable)
                     ELSE NoSpriteState)
  /\ masking_call' =
       IF SpriteIndexOk(s) THEN [masking_call EXCEPT ![s] = enable]
                           ELSE masking_call

\* check_collision computing the collisions of the sprites as they are now
Sprite_check_collision_live(s) ==
  /\ collision_out' =
       (\E y \in 0 .. height - 1 : s \in CollisionsOnLine(y))
  /\ UNCHANGED available_out
  /\ UNCHANGED <<spriteCfgVars, maskVars, palVars, objVars, passVars>>
  /\ UNCHANGED <<frameVars, layer_pos, layerVars, spriteVars, animVars, tileVars,
                 raised>>
  /\ UNCHANGED <<auxVars, events>>

\* Sprite.check_collision: no result to check, nothing raised
Sprite_check_collision(s) ==
  /\ collision_out' = TLN_GetSpriteCollision(s)
  /\ UNCHANGED available_out
  /\ UNCHANGED <<spriteCfgVars, maskVars, palVars, objVars, passVars>>
  /\ UNCHANGED <<frameVars, layer_pos, layerVars, spriteVars, animVars, tileVars,
                 raised>>
  /\ UNCHANGED <<auxVars, events>>

\* Engine.set_sprites_mask_region: TLN_SetSpritesMaskRegion has no restype
\* declared, so its result is a python int and never "is True"
Engine_set_sprites_mask_region(top, bottom) ==
  /\ sched = "Idle"
  /\ mask_region' = << top, bottom >>
  /\ mask_call' = << top, bottom >>
  /\ raised' = TRUE
  /\ UNCHANGED <<spriteCfgVars, outVars, palVars, objVars, passVars>>
  /\ UNCHANGED <<frameVars, layer_pos, layerVars, spriteVars, animVars, tileVars>>
  /\ UNCHANGED <<auxVars, events>>

\* get_available_sprite asking for the first unused animation instead
Engine_get_available_sprite_as_animation ==
  /\ available_out' = TLN_GetAvailableAnimation
  /\ UNCHANGED collision_out
  /\ UNCHANGED <<spriteCfgVars, maskVars, palVars, objVars, passVars>>
  /\ UNCHANGED <<frameVars, layer_pos, layerVars, spriteVars, animVars, tileVars,
                 raised>>
  /\ UNCHANGED <<auxVars, events>>

\* Engine.get_available_sprite
Engine_get_available_sprite ==
  /\ available_out' = TLN_GetAvailableSprite
  /\ UNCHANGED collision_out
  /\ UNCHANGED <<spriteCfgVars, maskVars, palVars, objVars, passVars>>
  /\ UNCHANGED <<frameVars, layer_pos, layerVars, spriteVars, animVars, tileVars,
                 raised>>
  /\ UNCHANGED <<auxVars, events>>

(* -------------------------- binding: Animation -------------------------- *)

\* set_palette_animation that always asks for the classic coarse mode
Animation_set_palette_animation_coarse(n, sequence, blend) ==
  /\ sched = "Idle"
  /\ IF AnimationIndexOk(n)
       THEN /\ pal_anim' =
                 [pal_anim EXCEPT
                    ![n] = TLN_SetPaletteAnimation(pal_anim[n], sequence, FALSE)]
            /\ blend_call' = [blend_call EXCEPT ![n] = blend]
            /\ raised' = FALSE
       ELSE /\ UNCHANGED <<pal_anim, blend_call>>
            /\ raised' = TRUE
  /\ UNCHANGED <<anim, palette>>
  /\ UNCHANGED <<frameVars, layer_pos, layerVars, spriteVars, tileVars>>
  /\ UNCHANGED <<passVars, spriteCfgVars, maskVars, outVars, objVars>>
  /\ UNCHANGED <<auxVars, events>>

\* Animation.set_palette_animation
Animation_set_palette_animation(n, sequence, blend) ==
  /\ sched = "Idle"
  /\ IF AnimationIndexOk(n)
       THEN /\ pal_anim' =
                 [pal_anim EXCEPT
                    ![n] = TLN_SetPaletteAnimation(pal_anim[n], sequence, blend)]
            /\ blend_call' = [blend_call EXCEPT ![n] = blend]
            /\ raised' = FALSE
       ELSE /\ UNCHANGED <<pal_anim, blend_call>>
            /\ raised' = TRUE
  /\ UNCHANGED <<anim, palette>>
  /\ UNCHANGED <<frameVars, layer_pos, layerVars, spriteVars, tileVars>>
  /\ UNCHANGED <<passVars, spriteCfgVars, maskVars, outVars, objVars>>
  /\ UNCHANGED <<auxVars, events>>

\* Animation.disable
Animation_disable(n) ==
  /\ sched = "Idle"
  /\ IF AnimationIndexOk(n)
       THEN /\ pal_anim' =
                 [pal_anim EXCEPT ![n] = TLN_DisablePaletteAnimation(pal_anim[n])]
            /\ raised' = FALSE
       ELSE /\ UNCHANGED pal_anim
            /\ raised' = TRUE
  /\ UNCHANGED anim
  /\ UNCHANGED <<frameVars, layer_pos, layerVars, spriteVars, tileVars>>
  /\ UNCHANGED extVars
  /\ UNCHANGED <<auxVars, events>>

\* animation indexes the program uses: the last one is out of range
AnimationInputs == Animations \cup {Cardinality(Animations)}

\* Engine.get_available_animation
Engine_get_available_animation ==
  /\ available_out' = TLN_GetAvailableAnimation
  /\ UNCHANGED collision_out
  /\ UNCHANGED <<spriteCfgVars, maskVars, palVars, objVars, passVars>>
  /\ UNCHANGED <<frameVars, layer_pos, layerVars, spriteVars, animVars, tileVars,
                 raised>>
  /\ UNCHANGED <<auxVars, events>>

(* --------------------------- binding: Palette --------------------------- *)

\* colors, as <<r, g, b>>
ColorInputs == { << 200, 100, 50 >> }

\* palette entries the program uses: the last one is out of range
EntryInputs == 0 .. PaletteSize

\* color of entry e of the palette the program starts with
BaseColor(e) == << (10 + 11 * e) % 256, (7 * e) % 256, (255 - 85 * e) % 256 >>

\* Palette.set_color
Palette_set_color(entry, color) ==
  /\ sched = "Idle"
  /\ IF TLN_SetPaletteColor_ok(entry)
       THEN /\ palette' = TLN_SetPaletteColor(palette, entry, color)
            /\ raised' = FALSE
       ELSE /\ UNCHANGED palette
            /\ raised' = TRUE
  /\ UNCHANGED blend_call
  /\ UNCHANGED <<passVars, spriteCfgVars, maskVars, outVars, objVars>>
  /\ UNCHANGED <<frameVars, layer_pos, layerVars, spriteVars, animVars, tileVars>>
  /\ UNCHANGED <<auxVars, events>>

(* ----------------------------- color strips ----------------------------- *)

\* value stored in a c_ubyte field
c_ubyte(v) == v % UByteRange

\* ColorStrip.__init__: delay is a c_int, first, count and dir are c_ubyte
ColorStrip(delay, first, count, direction) ==
  [delay |-> delay, first |-> c_ubyte(first), count |-> c_ubyte(count),
   dir |-> c_ubyte(direction)]

\* palette entries a strip cycles
StripRange(s) == { e \in PaletteEntries : s.first <= e /\ e < s.first + s.count }

\* a step that rotates every entry of the palette
RotateStrip_whole_palette(pal, s) ==
  [e \in PaletteEntries |-> pal[(e + 1) % PaletteSize]]

\* one step of a color strip: the entries of its range move by one
\* position, downwards for dir = 0 and upwards otherwise, the entry that
\* leaves the range at one end coming back in at the other
RotateStrip(pal, s) ==
  [e \in PaletteEntries |->
     IF e \in StripRange(s)
       THEN pal[s.first
                 + ((e - s.first + (IF s.dir = 0 THEN 1 ELSE s.count - 1))
                      % s.count)]
       ELSE pal[e]]

\* arguments the program gives to ColorStrip
StripFirstInputs == PaletteEntries \cup {UByteRange + 1}

StripCountInputs == 1 .. PaletteSize

\* the program makes a new strip for the palette as it is now
Strip_create(delay, first, count, direction) ==
  /\ ColorStrip(delay, first, count, direction).first
       + ColorStrip(delay, first, count, direction).count <= PaletteSize
  /\ strip' = ColorStrip(delay, first, count, direction)
  /\ strip_base' = strip_pal
  /\ strip_steps' = 0
  /\ UNCHANGED <<strip_pal, winVars, pack_alive, pos_call, events>>
  /\ UNCHANGED <<frameVars, layer_pos, layerVars, spriteVars, animVars, tileVars,
                 raised, extVars>>

\* the animation engine does one step of the strip
CycleStep ==
  /\ strip_steps < strip.count
  /\ strip_pal' = RotateStrip(strip_pal, strip)
  /\ strip_steps' = strip_steps + 1
  /\ UNCHANGED <<strip, strip_base, winVars, pack_alive, pos_call, events>>
  /\ UNCHANGED <<frameVars, layer_pos, layerVars, spriteVars, animVars, tileVars,
                 raised, extVars>>

(* ------------------------------- tilemaps ------------------------------- *)

\* value stored in a c_ushort field
c_ushort(v) == v % UShortRange

\* Tile structure with the fields assigned index and flags
Tile(index, flags) == [index |-> c_ushort(index), flags |-> c_ushort(flags)]

\* None where a Tile structure is expected
NoTile == [none |-> TRUE]

\* Tile structures the program hands to Tilemap.set_tile
TileInputs ==
  { Tile(i, f) : i \in {5, UShortRange + 6}, f \in {0, FLIPX, FLIPX + PRIORITY} }

\* cells of the tilemap
Cells == (0 .. MapSize - 1) \X (0 .. MapSize - 1)

\* <<row, col>> the program uses: the last one is out of range
CellInputs == { << 0, 0 >>, << 1, 1 >>, << MapSize, 0 >> }

\* TLN_SetTilemapTile and TLN_GetTilemapTile succeed inside the grid
CellOk(row, col) == << row, col >> \in Cells

\* TLN_SetTilemapTile: the cell takes the structure's index and flags
TLN_SetTilemapTile(grid, row, col, tile) ==
  [grid EXCEPT ![<< row, col >>] = [index |-> tile.index, flags |-> tile.flags]]

\* TLN_GetTilemapTile: the structure takes the cell's index and flags
TLN_GetTilemapTile(grid, row, col) ==
  [index |-> grid[<< row, col >>].index, flags |-> grid[<< row, col >>].flags]

\* set_tile taking the erase branch whatever it is given
Tilemap_set_tile_always_erases(row, col, tile_info) ==
  /\ IF CellOk(row, col)
       THEN /\ tiles' = TLN_SetTilemapTile(tiles, row, col, Tile(0, 0))
            /\ written' =
                 [written EXCEPT ![<< row, col >>] =
                    IF tile_info # NoTile THEN tile_info ELSE Tile(0, 0)]
            /\ raised' = FALSE
       ELSE /\ UNCHANGED <<tiles, written>>
            /\ raised' = TRUE
  /\ UNCHANGED tile_out
  /\ UNCHANGED <<frameVars, layer_pos, layerVars, spriteVars, animVars>>
  /\ UNCHANGED extVars
  /\ UNCHANGED <<auxVars, events>>

\* Tilemap.set_tile: tile_info is a Tile structure, or None to erase
Tilemap_set_tile(row, col, tile_info) ==
  /\ IF CellOk(row, col)
       THEN /\ tiles' =
                 IF tile_info # NoTile
                   THEN TLN_SetTilemapTile(tiles, row, col, tile_info)
                   ELSE TLN_SetTilemapTile(tiles, row, col, Tile(0, 0))
            /\ written' =
                 [written EXCEPT ![<< row, col >>] =
                    IF tile_info # NoTile THEN tile_info ELSE Tile(0, 0)]
            /\ raised' = FALSE
       ELSE /\ UNCHANGED <<tiles, written>>
            /\ raised' = TRUE
  /\ UNCHANGED tile_out
  /\ UNCHANGED <<frameVars, layer_pos, layerVars, spriteVars, animVars>>
  /\ UNCHANGED extVars
  /\ UNCHANGED <<auxVars, events>>

\* Tilemap.get_tile: fills the caller's structure
Tilemap_get_tile(row, col) ==
  /\ IF CellOk(row, col)
       THEN /\ tile_out' = TLN_GetTilemapTile(tiles, row, col)
            /\ raised' = FALSE
       ELSE /\ UNCHANGED tile_out
            /\ raised' = TRUE
  /\ UNCHANGED <<tiles, written>>
  /\ UNCHANGED <<frameVars, layer_pos, layerVars, spriteVars, animVars>>
  /\ UNCHANGED extVars
  /\ UNCHANGED <<auxVars, events>>

(* ------------------------ objects and lifetimes ------------------------- *)

\* native objects behind the resources the program has loaded: tilemaps,
\* tilesets, bitmaps, spritesets, the palette of tileset ts1, the palette
\* of spriteset ss1 and the sequence inside the sequence pack file
LoadedObjects ==
  Tilemaps \cup Tilesets \cup Bitmaps \cup Spritesets \cup {"pal0", "pal1", "seq0"}

\* handles the native library gives to the objects it creates
NewHandles == {"new1", "new2"}

\* handles given out so far
UsedHandles == natives \cup { d.handle : d \in deleted }

\* result of a native create, load or clone call: a handle never given out
\* before, or None when the native call fails
CreatedHandle(ok) ==
  IF ok /\ NewHandles \ UsedHandles # {}
    THEN CHOOSE h \in NewHandles \ UsedHandles : TRUE
    ELSE None

\* result of a native getter for an object held by another one
HeldHandle(h) == IF h \in natives THEN h ELSE None

\* a method that builds a wrapper around the handle it got, or raises when
\* the handle is None: cls(handle, owner)
WrapHandle(handle, owner, via, created) ==
  /\ sched = "Idle"
  /\ IF handle # None
       THEN /\ Cardinality(wrappers) < MaxWrappers
            /\ wrappers' =
                 wrappers \cup {[handle |-> handle, owner |-> owner, via |-> via]}
            /\ natives' = IF created THEN natives \cup {handle} ELSE natives
            /\ raised' = FALSE
       ELSE /\ UNCHANGED <<wrappers, natives>>
            /\ raised' = TRUE
  /\ UNCHANGED <<deleted, contexts, current, engines, pack_native, pack_count,
                 pack_sequences>>
  /\ UNCHANGED <<passVars, spriteCfgVars, maskVars, outVars, palVars>>
  /\ UNCHANGED <<frameVars, layer_pos, layerVars, spriteVars, animVars, tileVars>>
  /\ UNCHANGED <<auxVars, events>>

\* create that wraps the handle without looking at it
Palette_create_unchecked(ok) ==
  /\ sched = "Idle"
  /\ Cardinality(wrappers) < MaxWrappers
  /\ wrappers' =
       wrappers \cup {[handle |-> CreatedHandle(ok), owner |-> TRUE,
                       via |-> "Palette.create"]}
  /\ natives' = IF CreatedHandle(ok) # None
                  THEN natives \cup {CreatedHandle(ok)} ELSE natives
  /\ raised' = FALSE
  /\ UNCHANGED <<deleted, contexts, current, engines, pack_native, pack_count,
                 pack_sequences>>
  /\ UNCHANGED <<passVars, spriteCfgVars, maskVars, outVars, palVars>>
  /\ UNCHANGED <<frameVars, layer_pos, layerVars, spriteVars, animVars, tileVars>>
  /\ UNCHANGED <<auxVars, events>>

\* Palette.create: Palette(handle)
Palette_create(ok) ==
  WrapHandle(CreatedHandle(ok), TRUE, "Palette.create", TRUE)

\* Palette.fromfile: Palette(handle)
Palette_fromfile(ok) ==
  WrapHandle(CreatedHandle(ok), TRUE, "Palette.fromfile", TRUE)

\* Palette.clone: Palette(handle)
Palette_clone(ok) ==
  WrapHandle(CreatedHandle(ok), TRUE, "Palette.clone", TRUE)

\* Sequence.create_sequence: Sequence(handle)
Sequence_create_sequence(ok) ==
  WrapHandle(CreatedHandle(ok), TRUE, "Sequence.create_sequence", TRUE)

\* Sequence.create_cycle: Sequence(handle)
Sequence_create_cycle(ok) ==
  WrapHandle(CreatedHandle(ok), TRUE, "Sequence.create_cycle", TRUE)

\* Sequence.clone: Sequence(handle)
Sequence_clone(w, ok) ==
  /\ w.handle \in natives
  /\ WrapHandle(CreatedHandle(ok), TRUE, "Sequence.clone", TRUE)

\* Tileset.__init__: self.palette = Palette(handle, False)
Tileset_palette ==
  WrapHandle(HeldHandle("pal0"), FALSE, "Tileset.palette", FALSE)

\* Tilemap.__init__: self.tileset = Tileset(tileset_handle, False)
Tilemap_tileset ==
  WrapHandle(HeldHandle("ts1"), FALSE, "Tilemap.tileset", FALSE)

\* Tilemap.get_tileset: Tileset(handle, False)
Tilemap_get_tileset ==
  WrapHandle(HeldHandle("ts1"), FALSE, "Tilemap.get_tileset", FALSE)

\* Layer.get_palette: Palette(handle)
Layer_get_palette ==
  WrapHandle(HeldHandle("pal0"), TRUE, "Layer.get_palette", FALSE)

\* Sprite.get_palette: Palette(handle)
Sprite_get_palette ==
  WrapHandle(HeldHandle("pal1"), TRUE, "Sprite.get_palette", FALSE)

\* SequencePack.get_sequence: Sequence(handle, False)
SequencePack_get_sequence ==
  WrapHandle(HeldHandle("seq0"), FALSE, "SequencePack.get_sequence", FALSE)

\* SequencePack.find_sequence: Sequence(handle)
SequencePack_find_sequence ==
  WrapHandle(HeldHandle("seq0"), TRUE, "SequencePack.find_sequence", FALSE)

\* __del__ of a wrapper: an owner deletes its native object and raises when
\* the native delete reports failure
Wrapper_del(w) ==
  /\ sched = "Idle"
  /\ w \in wrappers
  /\ wrappers' = wrappers \ {w}
  /\ IF w.owner
       THEN /\ natives' = natives \ {w.handle}
            /\ deleted' =
                 IF w.handle \in natives
                   THEN deleted \cup {[handle |-> w.handle, via |-> w.via]}
                   ELSE deleted
            /\ raised' = (w.handle \notin natives)
       ELSE /\ UNCHANGED <<natives, deleted>>
            /\ raised' = FALSE
  /\ UNCHANGED <<contexts, current, engines, pack_native, pack_count,
                 pack_sequences>>
  /\ UNCHANGED <<passVars, spriteCfgVars, maskVars, outVars, palVars>>
  /\ UNCHANGED <<frameVars, layer_pos, layerVars, spriteVars, animVars, tileVars>>
  /\ UNCHANGED <<auxVars, events>>

\* TLN_GetSequencePackCount
TLN_GetSequencePackCount(pack) == Len(pack)

\* names of the sequences inside a native sequence pack
PackNames(pack) == { pack[i] : i \in 1 .. Len(pack) }

\* SequencePack.__init__ on the handle of the native pack: count and the
\* dictionary are read from the native pack
SequencePack_init(pack) ==
  /\ pack_native = pack
  /\ pack_count = TLN_GetSequencePackCount(pack)
  /\ pack_sequences = [n \in PackNames(pack) |-> n]
  /\ pack_alive = TRUE

\* Sequence objects the program adds to a pack
PackInputs == SpriteSequences \cup Cycles

\* TLN_AddSequenceToPack: the pack takes the sequence at its end
TLN_AddSequenceToPack(pack, seq) == Append(pack, seq)

\* SequencePack.add_sequence: ok is the result of TLN_AddSequenceToPack;
\* the dictionary takes the sequence under its name, count is not touched
SequencePack_add_sequence(seq, ok) ==
  /\ sched = "Idle"
  /\ pack_alive
  /\ ok => seq \notin PackNames(pack_native)
  /\ pack_native' = IF ok THEN TLN_AddSequenceToPack(pack_native, seq)
                          ELSE pack_native
  /\ pack_sequences' =
       IF ok
         THEN [n \in DOMAIN pack_sequences \cup {seq} |->
                 IF n = seq THEN seq ELSE pack_sequences[n]]
         ELSE pack_sequences
  /\ raised' = ~ok
  /\ UNCHANGED <<pack_count, natives, wrappers, deleted, contexts, current,
                 engines>>
  /\ UNCHANGED <<passVars, spriteCfgVars, maskVars, outVars, palVars>>
  /\ UNCHANGED <<frameVars, layer_pos, layerVars, spriteVars, animVars, tileVars>>
  /\ UNCHANGED <<auxVars, events>>

\* TLN_DeleteSequencePack: the pack is deleted with the sequences it holds
TLN_DeleteSequencePack(pack) == natives \ PackNames(pack)

\* SequencePack.__del__: the pack object is an owner, made by
\* SequencePack.create or SequencePack.fromfile
SequencePack_del ==
  /\ sched = "Idle"
  /\ pack_alive
  /\ pack_alive' = FALSE
  /\ natives' = TLN_DeleteSequencePack(pack_native)
  /\ deleted' =
       deleted \cup { [handle |-> h, via |-> "SequencePack.__del__"] :
                        h \in PackNames(pack_native) \cap natives }
  /\ raised' = FALSE
  /\ UNCHANGED <<wrappers, contexts, current, engines, pack_native, pack_count,
                 pack_sequences>>
  /\ UNCHANGED <<passVars, spriteCfgVars, maskVars, outVars, palVars>>
  /\ UNCHANGED <<frameVars, layer_pos, layerVars, spriteVars, animVars, tileVars>>
  /\ UNCHANGED <<winVars, stripVars, pos_call, events>>

(* ---------------------------- engine contexts --------------------------- *)

\* TLN_Init: handle of the new context, or no handle when the native call
\* fails
TLN_Init(ok) ==
  IF ok
    THEN CHOOSE c \in 0 .. MaxContexts :
           c \notin contexts /\ \A d \in 0 .. c - 1 : d \in contexts
    ELSE NoContext

\* layers, sprites and animations registered in the current context
Registered ==
  [layers |-> { l \in Layers : layer_content[l] # NoContent },
   sprites |-> UsedSprites,
   animations |-> { n \in Animations : pal_anim[n].state # "Disabled" }]

\* native objects reachable from the registered layers, sprites and
\* animations: contents, spritesets, their tilesets and palettes, sequences
Reachable ==
  LET contents == { layer_content[l].obj : l \in Registered.layers }
      tilesets == { tilemap_tileset[t] : t \in contents \cap Tilemaps } \ {None}
      spritesets == { sprite[s].spriteset : s \in Registered.sprites }
  IN contents \cup tilesets \cup spritesets
       \cup (IF "ts1" \in tilesets THEN {"pal0"} ELSE {})
       \cup (IF "ss1" \in spritesets THEN {"pal1"} ELSE {})
       \cup (IF Registered.animations # {} THEN {"pal0", "seq0"} ELSE {})

\* the slots of a context that has just been created, or released
FreshContext ==
  /\ tln_cb_raster' = None
  /\ tln_cb_frame' = None
  /\ layer_pos' = [l \in Layers |-> << 0, 0 >>]
  /\ layer_mode' = [l \in Layers |-> NoMode]
  /\ layer_content' = [l \in Layers |-> NoContent]
  /\ first_sprite' = NoSprite
  /\ next_sprite' = [s \in Sprites |-> NoSprite]
  /\ anim' = [s \in Sprites |-> NoAnimation]
  /\ pal_anim' = [n \in Animations |-> NoPaletteAnimation]
  /\ sprite' = [s \in Sprites |-> NoSpriteState]
  /\ mask_region' = NoMaskRegion

\* TLN_DeleteContext: the context is gone; when it was the current one its
\* layers, sprites and animations are released, the objects reachable from
\* them are freed and no context is current
TLN_DeleteContext(c) ==
  /\ contexts' = contexts \ {c}
  /\ IF c = current
       THEN /\ current' = NoContext
            /\ natives' = natives \ Reachable
            /\ FreshContext
       ELSE UNCHANGED <<current, natives, tln_cb_raster, tln_cb_frame, layer_pos,
                        layer_mode, layer_content, first_sprite, next_sprite,
                        anim, pal_anim, sprite, mask_region>>

\* Engine.create: a new context that becomes the current one, and a new
\* Engine object with new Layer, Sprite and Animation objects; or an
\* exception when TLN_Init returns no handle
Engine_create(ok) ==
  /\ sched = "Idle"
  /\ Cardinality(contexts) < MaxContexts
  /\ IF TLN_Init(ok) # NoContext
       THEN /\ engines' = engines \cup {TLN_Init(ok)}
            /\ contexts' = contexts \cup {TLN_Init(ok)}
            /\ current' = TLN_Init(ok)
            /\ raised' = FALSE
            /\ FreshContext
            /\ cb_raster_func' = None
            /\ cb_frame_func' = None
            /\ layer_last' = [l \in Layers |-> << >>]
            /\ layer_tilemap' = [l \in Layers |-> None]
            /\ layer_bitmap' = [l \in Layers |-> None]
            /\ layer_objectlist' = [l \in Layers |-> None]
            /\ layer_size' = [l \in Layers |-> << 0, 0 >>]
            /\ sprite_spriteset' = [s \in SpriteInputs |-> None]
            /\ masking_call' = [s \in Sprites |-> FALSE]
            /\ mask_call' = NoMaskRegion
            /\ blend_call' = [n \in Animations |-> FALSE]
            /\ zorder_calls' =
                 [first |-> NoSprite, next |-> [s \in Sprites |-> NoSprite]]
       ELSE /\ raised' = TRUE
            /\ UNCHANGED <<engines, contexts, current, tln_cb_raster, tln_cb_frame,
                           layer_pos, layer_mode, layer_content, first_sprite,
                           next_sprite, anim, pal_anim, sprite, mask_region,
                           cb_raster_func, cb_frame_func, layer_last,
                           layer_tilemap, layer_bitmap, layer_objectlist,
                           layer_size, sprite_spriteset, masking_call, mask_call,
                           blend_call, zorder_calls>>
  /\ UNCHANGED <<sched, line, frame, height, target, window_created, num_frame,
                 caller, rasterCalls, frameCalls, frames_drawn>>
  /\ UNCHANGED <<tilemap_tileset, painted, palette, natives, wrappers, deleted,
                 pack_native, pack_count, pack_sequences>>
  /\ UNCHANGED <<tileVars, passVars, outVars>>
  /\ UNCHANGED <<auxVars, events>>

\* teardown of an Engine object that does not release its context
Engine_del_keeps_context(e) ==
  /\ sched = "Idle"
  /\ e \in engines
  /\ engines' = engines \ {e}
  /\ raised' = FALSE
  /\ UNCHANGED <<contexts, current, natives, tln_cb_raster, tln_cb_frame,
                 layer_pos, layer_mode, layer_content, first_sprite, next_sprite,
                 anim, pal_anim, sprite, mask_region>>
  /\ UNCHANGED <<sched, line, frame, height, target, cb_raster_func,
                 cb_frame_func, window_created, num_frame, caller, rasterCalls,
                 frameCalls, frames_drawn>>
  /\ UNCHANGED <<layer_last, layer_tilemap, layer_bitmap, layer_objectlist,
                 layer_size, tilemap_tileset, painted, zorder_calls>>
  /\ UNCHANGED <<sprite_spriteset, masking_call, mask_call, palVars, wrappers,
                 deleted, pack_native, pack_count, pack_sequences>>
  /\ UNCHANGED <<tileVars, passVars, outVars>>
  /\ UNCHANGED <<auxVars, events>>

\* Engine.__del__: TLN_DeleteContext on the handle the object holds
Engine_del(e) ==
  /\ sched = "Idle"
  /\ e \in engines
  /\ engines' = engines \ {e}
  /\ TLN_DeleteContext(e)
  /\ raised' = FALSE
  /\ UNCHANGED <<sched, line, frame, height, target, cb_raster_func,
                 cb_frame_func, window_created, num_frame, caller, rasterCalls,
                 frameCalls, frames_drawn>>
  /\ UNCHANGED <<layer_last, layer_tilemap, layer_bitmap, layer_objectlist,
                 layer_size, tilemap_tileset, painted, zorder_calls>>
  /\ UNCHANGED <<sprite_spriteset, masking_call, mask_call, palVars, wrappers,
                 deleted, pack_native, pack_count, pack_sequences>>
  /\ UNCHANGED <<tileVars, passVars, outVars>>
  /\ UNCHANGED <<auxVars, events>>

(* ---------------------------- initial state ----------------------------- *)

\* Engine.create, and the objects Engine.__init__ builds
InitEngine ==
  /\ sched = "Idle"
  /\ line = 0
  /\ frame = 0
  /\ height \in 1 .. MaxHeight
  /\ tln_cb_raster = None
  /\ tln_cb_frame = None
  /\ target = [y \in 0 .. MaxHeight - 1 |-> Blank]
  /\ cb_raster_func = None
  /\ cb_frame_func = None
  /\ window_created = FALSE
  /\ num_frame = 0
  /\ caller = None
  /\ rasterCalls = << >>
  /\ frameCalls = << >>
  /\ frames_drawn = 0
  /\ layer_pos = [l \in Layers |-> << 0, 0 >>]
  /\ layer_mode = [l \in Layers |-> NoMode]
  /\ layer_content = [l \in Layers |-> NoContent]
  /\ layer_last = [l \in Layers |-> << >>]
  /\ layer_tilemap = [l \in Layers |-> None]
  /\ layer_bitmap = [l \in Layers |-> None]
  /\ layer_objectlist = [l \in Layers |-> None]
  /\ layer_size = [l \in Layers |-> << 0, 0 >>]
  /\ tilemap_tileset = [t \in Tilemaps |-> IF t = "tm1" THEN "ts1" ELSE None]
  /\ first_sprite = NoSprite
  /\ next_sprite = [s \in Sprites |-> NoSprite]
  /\ painted = << >>
  /\ zorder_calls = [first |-> NoSprite, next |-> [s \in Sprites |-> NoSprite]]
  /\ anim = [s \in Sprites |-> NoAnimation]
  /\ pal_anim = [n \in Animations |-> NoPaletteAnimation]
  /\ tiles = [c \in Cells |-> Tile(0, 0)]
  /\ tile_out = Tile(0, 0)
  /\ written = [c \in Cells |-> NoTile]
  /\ raised = FALSE
  /\ sprite = [s \in Sprites |-> NoSpriteState]
  /\ mask_region = NoMaskRegion
  /\ sprite_spriteset = [s \in SpriteInputs |-> None]
  /\ drawn = [y \in 0 .. MaxHeight - 1 |-> {}]
  /\ collision_acc = {}
  /\ collision = {}
  /\ sprite_done = sprite
  /\ collision_out = FALSE
  /\ available_out = 0
  /\ masking_call = [s \in Sprites |-> FALSE]
  /\ mask_call = NoMaskRegion
  /\ palette = [e \in PaletteEntries |-> BaseColor(e)]
  /\ blend_call = [n \in Animations |-> FALSE]
  /\ natives = LoadedObjects
  /\ wrappers = {}
  /\ deleted = {}
  /\ contexts = {0}
  /\ current = 0
  /\ engines = {0}
  /\ window_obj = NoWindow
  /\ native_windows = 0
  /\ window_out = NoWindow
  /\ window_by = None
  /\ events = << >>
  /\ strip = ColorStrip(1, 0, PaletteSize, 0)
  /\ strip_base = [e \in PaletteEntries |-> BaseColor(e)]
  /\ strip_pal = [e \in PaletteEntries |-> BaseColor(e)]
  /\ strip_steps = 0
  /\ pos_call = << NoLayer, 0, 0 >>

\* the engine, and an empty sequence pack from SequencePack.create
Init == InitEngine /\ SequencePack_init(<< >>)

\* the same, at the largest resolution
InitFull == Init /\ height = MaxHeight

(* ---------------------------- specifications ---------------------------- *)

\* frame scheduler, callbacks and window
Next ==
  \/ \E cb \in Callbacks \cup {None} : Engine_set_raster_callback(cb)
  \/ \E cb \in Callbacks \cup {None} : Engine_set_frame_callback(cb)
  \/ \E n \in FrameInputs : Engine_update_frame(n)
  \/ \E ok \in BOOLEAN : Window_create(ok)
  \/ Window_process
  \/ TLN_DrawNextScanline
  \/ TLN_EndFrame

Spec == Init /\ [][Next]_vars

\* animation engine driven by the frames
NextAnim ==
  \/ \E s \in AnimatedSprites, q \in SpriteSequences, k \in LoopInputs :
       Sprite_set_animation(s, q, k)
  \/ \E s \in AnimatedSprites : Sprite_pause_animation(s)
  \/ \E s \in AnimatedSprites : Sprite_resume_animation(s)
  \/ \E s \in AnimatedSprites : Sprite_disable_animation(s)
  \/ \E n \in Animations, q \in Cycles, b \in BOOLEAN :
       Animation_set_palette_animation(n, q, b)
  \/ \E n \in Animations : Animation_disable(n)
  \/ \E n \in FrameInputs : Engine_update_frame(n)
  \/ TLN_DrawNextScanline
  \/ TLN_EndFrame

SpecAnim == Init /\ [][NextAnim]_vars

\* render modes of the layers
NextLayerMode ==
  \/ \E l \in LayerInputs : Layer_set_scaling(l)
  \/ \E l \in LayerInputs : Layer_set_transform(l)
  \/ \E l \in LayerInputs : Layer_set_pixel_mapping(l)
  \/ \E l \in LayerInputs : Layer_reset_mode(l)

SpecLayerMode == InitFull /\ [][NextLayerMode]_vars

\* content sources of the layers
NextLayer ==
  \/ \E l \in LayerInputs, t \in Tilemaps, ts \in Tilesets \cup {None} :
       Layer_setup(l, t, ts)
  \/ \E l \in LayerInputs, t \in Tilemaps : Layer_set_tilemap(l, t)
  \/ \E l \in LayerInputs, b \in Bitmaps : Layer_set_bitmap(l, b)

SpecLayer == InitFull /\ [][NextLayer]_vars

\* z-order list of the sprites
NextSprite ==
  \/ \E s \in Sprites : Sprite_set_first(s)
  \/ \E s \in Sprites, n \in Sprites \cup {NoSprite} : Sprite_set_next(s, n)
  \/ SpriteCompositor

SpecSprite == InitFull /\ [][NextSprite]_vars

\* cells of a tilemap
NextTilemap ==
  \/ \E c \in CellInputs, t \in TileInputs \cup {NoTile} :
       Tilemap_set_tile(c[1], c[2], t)
  \/ \E c \in CellInputs : Tilemap_get_tile(c[1], c[2])

SpecTilemap == InitFull /\ [][NextTilemap]_vars

(* ------------------------- frame scheduler claims ----------------------- *)

\* C1: while a frame is drawn with a raster callback registered, the
\* callback has been invoked exactly once for each scanline drawn so far,
\* in ascending order 0, 1, 2, ..., and once the frame is complete that is
\* every scanline 0 .. height-1.
C1_RasterOncePerScanline ==
  (cb_raster_func # None /\ sched # "Idle") =>
    /\ Len(rasterCalls) = line
    /\ \A i \in 1 .. Len(rasterCalls) :
         rasterCalls[i] = [fn |-> cb_raster_func, arg |-> i - 1]
    /\ sched = "FrameComplete" => line = height

\* a frame of several scanlines is complete and the raster callback ran
C1_Witness ==
  /\ sched = "FrameComplete"
  /\ cb_raster_func # None
  /\ height >= 2
  /\ Len(rasterCalls) = height

\* the steps the scheduler and the frame callback may take
C2_Step ==
  /\ sched' # sched =>
       \/ sched = "Idle" /\ sched' = "RenderingFrame"
       \/ sched = "RenderingFrame" /\ sched' = "FrameComplete"
       \/ sched = "FrameComplete" /\ sched' = "Idle"
  /\ (sched = "RenderingFrame" /\ sched' = "FrameComplete") => line' = height
  /\ (sched = "FrameComplete" /\ sched' = "Idle") =>
       /\ line = height
       /\ caller = "process" => frame = num_frame
       /\ frameCalls = << >>
       /\ frameCalls' =
            IF cb_frame_func # None
              THEN << [fn |-> cb_frame_func, arg |-> frame] >>
              ELSE << >>
  /\ frameCalls' # frameCalls =>
       \/ sched = "FrameComplete" /\ sched' = "Idle"
       \/ sched = "Idle" /\ sched' = "RenderingFrame" /\ frameCalls' = << >>

\* C2: the scheduler only moves Idle -> RenderingFrame -> FrameComplete ->
\* Idle; the registered frame callback is invoked exactly once per frame,
\* with the frame number, after scanline height-1 was composited, in the
\* step that returns the scheduler to Idle.
C2_FrameCallbackOncePerFrame == [][C2_Step]_vars

\* a frame with number 1 ended and its frame callback ran once
C2_Witness ==
  /\ sched = "Idle"
  /\ height >= 2
  /\ cb_frame_func # None
  /\ frameCalls = << [fn |-> cb_frame_func, arg |-> 1] >>

\* the steps of a frame with respect to the scanlines already composited
C4_Step ==
  sched # "Idle" =>
    /\ \A y \in 0 .. line - 1 : target'[y] = target[y]
    /\ line' = line + 1 => target'[line] = RenderLine(layer_pos', line)

\* C4: what the raster callback changes on scanline y shows on the
\* scanlines composited from y on; the scanlines of the frame composited
\* before keep their pixels.
C4_NoRetroactiveEffect == [][C4_Step]_vars

\* the raster callback moved the layer between scanline 0 and scanline 1
C4_Witness ==
  /\ frames_drawn = 1
  /\ line = 2
  /\ target[0] = << 1 >>
  /\ target[1] = << 0 >>

(* ------------------------ animation engine claims ----------------------- *)

\* a step that enters RenderingFrame
BeginsFrame == sched = "Idle" /\ sched' = "RenderingFrame"

\* the ticks an animation a receives in a step that takes it to b
C3_Ticks(a, b) ==
  /\ (BeginsFrame /\ a.state = "Running") => b.ticks = a.ticks + 1
  /\ (BeginsFrame /\ a.state # "Running") => b.ticks = a.ticks
  /\ (~BeginsFrame /\ b.ticks # a.ticks) => (b.ticks = 0 /\ sched = "Idle")

\* C3: entering RenderingFrame gives every running animation exactly one
\* tick, whatever the number of scanlines; no other step of a frame gives
\* a tick (the count only restarts when the animation is started again).
C3_OneTickPerFrame ==
  [][ /\ \A s \in Sprites : C3_Ticks(anim[s], anim'[s])
      /\ \A n \in Animations : C3_Ticks(pal_anim[n], pal_anim'[n]) ]_vars

\* two frames of several scanlines gave a running animation two ticks
C3_Witness ==
  /\ height >= 2
  /\ frames_drawn = 2
  /\ sched = "FrameComplete"
  /\ anim[0].state = "Running"
  /\ anim[0].ticks = 2
  /\ pal_anim[0].state = "Running"
  /\ pal_anim[0].ticks = 2

\* the transitions of the animation state machine as first stated
C5_StatedTransitions ==
  { << "Disabled", "Running" >>, << "Running", "Paused" >>,
    << "Paused", "Running" >>, << "Paused", "Disabled" >> }

C5_States ==
  /\ \A s \in Sprites : anim[s].state \in {"Disabled", "Running", "Paused"}
  /\ \A n \in Animations : pal_anim[n].state \in {"Disabled", "Running", "Paused"}

C6_Case(s) == anim[s].seq = "walk" /\ anim[s].loop = 1

\* C6: a sprite animation of frames [(0,2),(1,2)] started with loop = 1
\* finishes on its 4th tick, not on an earlier one and not later, and from
\* then on get_animation_state is false until the sprite is given an
\* animation again.
C6_TerminalAfterFourTicks ==
  /\ [] (\A s \in Sprites : C6_Case(s) =>
           /\ anim[s].ticks <= 4
           /\ anim[s].ticks = 4 => ~Sprite_get_animation_state(s)
           /\ anim[s].state = "Running" => Sprite_get_animation_state(s))
  /\ [][ \A s \in Sprites : C6_Case(s) =>
           /\ (BeginsFrame /\ anim[s].state = "Running"
                 /\ anim'[s].state = "Disabled") => anim'[s].ticks = 4
           /\ (BeginsFrame /\ anim[s].state = "Running"
                 /\ anim'[s].ticks < 4) => anim'[s].state = "Running"
           /\ (anim[s].ticks = 4 /\ anim'[s].ticks = 4) =>
                ~TLN_GetAnimationState(anim'[s]) ]_vars

\* the animation finished on its 4th tick, showing its second picture
C6_Witness ==
  /\ C6_Case(0)
  /\ anim[0].ticks = 4
  /\ anim[0].picture = 1
  /\ ~Sprite_get_animation_state(0)

(* ------------------------------ sprite claims --------------------------- *)

\* the sequence q follows the list the program built with set_first and
\* set_next
C7_FollowsCalls(q) ==
  /\ (q = << >>) <=> (zorder_calls.first = NoSprite)
  /\ q # << >> => q[1] = zorder_calls.first
  /\ \A i \in 1 .. Len(q) - 1 : q[i + 1] = zorder_calls.next[q[i]]
  /\ \A A, B, C \in Sprites :
       ( /\ Cardinality({A, B, C}) = 3
         /\ zorder_calls.first = A
         /\ zorder_calls.next[A] = B
         /\ zorder_calls.next[B] = C )
       => (Len(q) >= 3 /\ SubSeq(q, 1, 3) = << A, B, C >>)

\* C7: a sprite pass paints the sprites in the order of the list that
\* starts at the sprite given to set_first and follows the set_next links:
\* after set_first(A), A.set_next(B), B.set_next(C) it paints A, B, C,
\* A first, whatever the indexes of A, B and C.
C7_PaintOrderFollowsList == [][SpriteCompositor => C7_FollowsCalls(painted')]_vars

\* the list 2 -> 0 -> 1 was painted in that order, not in index order
C7_Witness ==
  /\ zorder_calls.first = 2
  /\ zorder_calls.next[2] = 0
  /\ zorder_calls.next[0] = 1
  /\ painted = << 2, 0, 1 >>

(* ------------------------------ layer claims ---------------------------- *)

\* the render modes enabled in m
ActiveModes(m) == {k \in {"scaling", "transform", "pixel_mapping"} : m[k]}

\* C8: on every layer at most one of scaling, affine transform and pixel
\* mapping is active: the one whose call succeeded last, and none after
\* reset_mode or before any call.
C8_OneRenderMode ==
  \A l \in Layers :
    /\ Cardinality(ActiveModes(layer_mode[l])) <= 1
    /\ ActiveModes(layer_mode[l]) =
         IF layer_last[l] = << >> \/ layer_last[l][Len(layer_last[l])] = "reset"
           THEN {}
           ELSE {layer_last[l][Len(layer_last[l])]}

\* set_scaling after set_transform on layer 0, reset_mode on layer 1
C8_Witness ==
  /\ layer_last[0] = << "transform", "scaling" >>
  /\ ActiveModes(layer_mode[0]) = {"scaling"}
  /\ layer_last[1] = << "scaling", "reset" >>
  /\ ActiveModes(layer_mode[1]) = {}

\* the content sources a Layer object holds
HeldSources(l) ==
  {k \in {"tilemap", "bitmap", "objectlist"} :
     \/ k = "tilemap" /\ layer_tilemap[l] # None
     \/ k = "bitmap" /\ layer_bitmap[l] # None
     \/ k = "objectlist" /\ layer_objectlist[l] # None}

\* C9: after any successful setup, set_tilemap and set_bitmap calls a layer
\* holds at most one of tilemap, bitmap and objectlist.
C9_AtMostOneSource == \A l \in Layers : Cardinality(HeldSources(l)) <= 1

(* ----------------------------- tilemap claims --------------------------- *)

\* C10: get_tile on an in-range cell returns the index and flags of the
\* Tile structure given to the last set_tile on that cell.
C10_SetThenGet ==
  [][ \A c \in Cells :
        (Tilemap_get_tile(c[1], c[2]) /\ written[c] # NoTile)
          => tile_out' = written[c] ]_vars

\* index 5 with FLIPX was written to cell (0,0) and read back
C10_Witness ==
  /\ written[<< 0, 0 >>] = [index |-> 5, flags |-> FLIPX]
  /\ tile_out = [index |-> 5, flags |-> FLIPX]
  /\ tiles[<< 0, 0 >>].index = 5
  /\ tiles[<< 1, 1 >>].index # 5
  /\ ~raised

(* ------------------------- error handling claims ------------------------ *)

\* indexes probed by the calls: the first slot and the first index past
\* the last slot
LayerProbes == {0, NumLayers}

SpriteProbes == {0, NumSprites}

\* mutators called with indexes inside and outside the declared ranges
NextIndex ==
  \/ \E l \in LayerProbes : Layer_set_scaling(l)
  \/ \E l \in LayerProbes : Layer_set_bitmap(l, "bm1")
  \/ \E s \in SpriteProbes : Sprite_setup(s, "ss1", 0)
  \/ \E s \in SpriteProbes, x \in {0, 1} : Sprite_set_position(s, x, 0)
  \/ \E s \in SpriteProbes : Sprite_disable(s)
  \/ \E n \in AnimationInputs, b \in BOOLEAN :
       Animation_set_palette_animation(n, "water", b)
  \/ \E n \in AnimationInputs : Animation_disable(n)
  \/ \E e \in {0, PaletteSize}, c \in ColorInputs : Palette_set_color(e, c)

SpecIndex == InitFull /\ [][NextIndex]_vars

\* everything but the exception flag
stateVars == <<frameVars, layer_pos, layerVars, spriteVars, animVars, tileVars,
               extVars>>

\* a mutator of the model called with an index outside its declared range
BadIndexCall ==
  \/ Layer_set_scaling(NumLayers)
  \/ Layer_set_bitmap(NumLayers, "bm1")
  \/ Sprite_setup(NumSprites, "ss1", 0)
  \/ \E x \in {0, 1} : Sprite_set_position(NumSprites, x, 0)
  \/ Sprite_disable(NumSprites)
  \/ \E b \in BOOLEAN :
       Animation_set_palette_animation(Cardinality(Animations), "water", b)
  \/ Animation_disable(Cardinality(Animations))
  \/ \E c \in ColorInputs : Palette_set_color(PaletteSize, c)

\* C11: a mutator called with a layer, sprite, animation or palette-entry
\* index outside its declared range raises and changes no state, of the
\* engine or of the python objects.
C11_BadIndexChangesNothing ==
  [][ BadIndexCall => (raised' /\ UNCHANGED stateVars) ]_vars

\* C11, layers only: an out-of-range layer index raises and leaves every
\* layer as it was
C11_BadLayerIndexChangesNoLayer ==
  [][ (Layer_set_scaling(NumLayers) \/ Layer_set_bitmap(NumLayers, "bm1"))
        => (raised' /\ UNCHANGED <<layer_pos, layerVars>>) ]_vars

\* content and spriteset calls whose native call can report failure: a
\* tilemap without tileset, no spriteset, an index out of range
NextFail ==
  \/ \E l \in LayerProbes, t \in Tilemaps, ts \in Tilesets \cup {None} :
       Layer_setup(l, t, ts)
  \/ \E l \in LayerProbes, t \in Tilemaps : Layer_set_tilemap(l, t)
  \/ \E l \in LayerProbes, b \in Bitmaps : Layer_set_bitmap(l, b)
  \/ \E s \in SpriteProbes, ss \in Spritesets \cup {None} : Sprite_setup(s, ss, 0)
  \/ \E s \in SpriteProbes, ss \in Spritesets \cup {None} :
       Sprite_set_spriteset(s, ss)

SpecFail == InitFull /\ [][NextFail]_vars

\* a content call on a layer whose native call reports failure
FailedLayerCall ==
  \/ \E l \in LayerProbes, t \in Tilemaps, ts \in Tilesets \cup {None} :
       ~TLN_SetLayer_ok(l, ts, t) /\ Layer_setup(l, t, ts)
  \/ \E l \in LayerProbes, t \in Tilemaps :
       ~TLN_SetLayerTilemap_ok(l, t) /\ Layer_set_tilemap(l, t)
  \/ \E l \in LayerProbes, b \in Bitmaps :
       ~TLN_SetLayerBitmap_ok(l, b) /\ Layer_set_bitmap(l, b)

\* a spriteset call on a sprite whose native call reports failure
FailedSpriteCall ==
  \/ \E s \in SpriteProbes, ss \in Spritesets \cup {None} :
       ~TLN_ConfigSprite_ok(s, ss) /\ Sprite_setup(s, ss, 0)
  \/ \E s \in SpriteProbes, ss \in Spritesets \cup {None} :
       ~TLN_SetSpriteSet_ok(s, ss) /\ Sprite_set_spriteset(s, ss)

\* C12: when the native call behind a mutator reports failure the binding
\* raises and all state is as before, the attributes of the python objects
\* included: width, height, tilemap, bitmap and objectlist of the layer,
\* spriteset of the sprite.
C12_FailedCallChangesNothing ==
  [][ (FailedLayerCall \/ FailedSpriteCall)
        => (raised' /\ UNCHANGED stateVars) ]_vars

\* C12, layers only: a failed setup, set_tilemap or set_bitmap raises and
\* leaves the layer object as it was
C12_FailedLayerCallChangesNothing ==
  [][ FailedLayerCall => (raised' /\ UNCHANGED stateVars) ]_vars

(* --------------------------- ownership claims --------------------------- *)

\* wrappers made standalone, wrappers obtained from other objects, and
\* their teardown
NextOwner ==
  \/ \E ok \in BOOLEAN : Palette_create(ok)
  \/ \E ok \in BOOLEAN : Palette_fromfile(ok)
  \/ \E ok \in BOOLEAN : Palette_clone(ok)
  \/ Tileset_palette
  \/ Tilemap_tileset
  \/ Tilemap_get_tileset
  \/ Layer_get_palette
  \/ Sprite_get_palette
  \/ SequencePack_get_sequence
  \/ SequencePack_find_sequence
  \/ \E w \in wrappers : Wrapper_del(w)

SpecOwner == InitFull /\ [][NextOwner]_vars

\* the ways of making a wrapper standalone
Standalone == {"Palette.create", "Palette.fromfile", "Palette.clone"}

\* C13: the teardown of a wrapper obtained by reference from another
\* object never deletes the native object: every native object deleted by
\* a wrapper's teardown was wrapped by create, fromfile or clone.
C13_OnlyStandaloneDeletes ==
  \A d \in deleted : d.via \in Standalone

(* ---------------------------- context claims ---------------------------- *)

\* engines created and torn down, and resources registered in between
NextContext ==
  \/ \E ok \in BOOLEAN : Engine_create(ok)
  \/ \E e \in engines : Engine_del(e)
  \/ Layer_setup(0, "tm1", None)
  \/ Layer_set_bitmap(0, "bm1")
  \/ Sprite_setup(0, "ss1", 0)
  \/ Animation_set_palette_animation(0, "water", TRUE)

SpecContext == InitFull /\ [][NextContext]_vars

\* contexts the calls of the program act on
ActiveContexts == { c \in contexts : c = current }

\* no layer, sprite or animation is registered
NothingRegistered ==
  /\ Registered.layers = {}
  /\ Registered.sprites = {}
  /\ Registered.animations = {}

CollisionSprites == {0, 1}

\* two sprites set up, moved and made to collide between frames, frames
\* drawn, and the collision result asked for at any point
NextCollision ==
  \/ \E s \in CollisionSprites : Sprite_setup(s, "ss1", 0)
  \/ \E s \in CollisionSprites, x \in {0, 1} : Sprite_set_position(s, x, 0)
  \/ \E s \in CollisionSprites : Sprite_enable_collision(s, TRUE)
  \/ \E s \in CollisionSprites : Sprite_check_collision(s)
  \/ Engine_update_frame(0)
  \/ TLN_DrawNextScanline
  \/ TLN_EndFrame

SpecCollision == InitFull /\ [][NextCollision]_vars

\* sprite s overlapped another collision-enabled sprite on some scanline of
\* the frame completed last, the sprites being where that frame left them
CollidedInLastFrame(s) ==
  /\ sprite_done[s].spriteset # None
  /\ sprite_done[s].collide
  /\ \E t \in Sprites \ {s} :
       /\ sprite_done[t].spriteset # None
       /\ sprite_done[t].collide
       /\ sprite_done[t].x = sprite_done[s].x
       /\ \E y \in 0 .. height - 1 :
            /\ sprite_done[s].y <= y /\ y < sprite_done[s].y + SpriteRows
            /\ sprite_done[t].y <= y /\ y < sprite_done[t].y + SpriteRows

\* C15: the collision state changes only when a frame completes, and
\* check_collision, called at any point, returns what the most recently
\* completed frame computed for the sprite: not the overlap of the sprites
\* as moved since, nor that of a frame still being drawn.
C15_CollisionOfLastCompletedFrame ==
  [][ /\ \A s \in CollisionSprites :
           Sprite_check_collision(s) =>
             (collision_out' = CollidedInLastFrame(s))
      /\ (collision' # collision) => (sched = "FrameComplete" /\ sched' = "Idle")
    ]_vars

\* a collision was reported while the next frame is being drawn and the
\* two sprites have been moved apart since the frame that made them collide
C15_Witness ==
  /\ collision_out
  /\ sched = "RenderingFrame"
  /\ line >= 1
  /\ collision = CollisionSprites
  /\ collision_acc = {}
  /\ sprite[0].x # sprite[1].x


(* ---------------------------- masking claims ---------------------------- *)

\* mask regions the program sets
RegionInputs == {<< 1, 1 >>, << 0, 2 >>}

\* a sprite set up with or without the masked flag, moved, masked and
\* unmasked, a second sprite that is never masked, the mask region set,
\* and frames drawn
NextMask ==
  \/ \E f \in FlagInputs : Sprite_setup(0, "ss1", f)
  \/ Sprite_setup(1, "ss1", 0)
  \/ \E y \in {0, 1} : Sprite_set_position(0, 0, y)
  \/ \E enable \in BOOLEAN : Sprite_enable_masking(0, enable)
  \/ \E r \in RegionInputs : Engine_set_sprites_mask_region(r[1], r[2])
  \/ Engine_update_frame(0)
  \/ TLN_DrawNextScanline
  \/ TLN_EndFrame

SpecMask == InitFull /\ [][NextMask]_vars

\* the picture of sprite s covers scanline y
CoversLine(s, y) ==
  /\ sprite[s].spriteset # None
  /\ sprite[s].y <= y /\ y < sprite[s].y + SpriteRows

\* the program asked for sprite s to be masked and scanline y lies in the
\* region it asked for
MaskedOut(s, y) ==
  masking_call[s] /\ mask_call[1] <= y /\ y <= mask_call[2]

\* C16: on every scanline drawn, a sprite with masking enabled is left out
\* when the scanline lies inside the region [top, bottom] given to
\* Engine.set_sprites_mask_region, wherever the sprite is; sprites without
\* masking, and masked sprites outside the region, are drawn where their
\* picture covers the scanline.
C16_MaskedSpritesSkippedInRegion ==
  [][ (sched = "RenderingFrame" /\ line' = line + 1) =>
        drawn'[line] =
          { s \in Sprites : CoversLine(s, line) /\ ~MaskedOut(s, line) }
    ]_vars

\* scanline 1, inside the region, was drawn without the masked sprite 0
\* that covers it, and with the unmasked sprite 1; scanline 0, outside the
\* region, was drawn with both
C16_Witness ==
  /\ sched = "FrameComplete"
  /\ mask_call = << 1, 1 >>
  /\ masking_call[0]
  /\ sprite[0].spriteset # None /\ sprite[0].y = 0
  /\ drawn[0] = {0, 1}
  /\ drawn[1] = {1}


(* -------------------------- color cycle claims -------------------------- *)

\* a color cycle started with or without blend on a palette the program
\* edits, and frames drawn
NextCycle ==
  \/ \E n \in Animations, q \in Cycles, b \in BOOLEAN :
       Animation_set_palette_animation(n, q, b)
  \/ \E n \in Animations : Animation_disable(n)
  \/ \E e \in EntryInputs, col \in ColorInputs : Palette_set_color(e, col)
  \/ Engine_update_frame(0)
  \/ TLN_DrawNextScanline
  \/ TLN_EndFrame

SpecCycle == InitFull /\ [][NextCycle]_vars

\* distance between two integers
Distance(a, b) == IF a >= b THEN a - b ELSE b - a

\* slot n runs a cycle the program asked to blend, and stands at the tick
\* halfway between two discrete steps
AtMidpoint(n) ==
  /\ pal_anim[n].state = "Running"
  /\ blend_call[n]
  /\ pal_anim[n].ticks >= 1
  /\ 2 * (CycleDelays(pal_anim[n].seq)[pal_anim[n].pos] - pal_anim[n].timer)
       = CycleDelays(pal_anim[n].seq)[pal_anim[n].pos]

\* twice the arithmetic mean of channel c of entry e over the discrete
\* palettes before and after the midpoint of slot n
TwiceMean(n, e, c) ==
  DiscretePalette(palette, pal_anim[n].rot)[e][c]
    + DiscretePalette(palette, pal_anim[n].rot + 1)[e][c]

\* C17: with blend = true, the palette shown at the midpoint tick between
\* two consecutive discrete steps of a color cycle is, on every channel of
\* every entry, within 1 unit of the arithmetic mean of the two
\* neighbouring discrete palettes.
C17_MidpointIsMean ==
  \A n \in Animations :
    AtMidpoint(n) =>
      \A e \in PaletteEntries, c \in Channels :
        Distance(2 * ShownPalette(pal_anim[n], palette)[e][c],
                 TwiceMean(n, e, c)) <= 2

\* a blended cycle stands at a midpoint where the mean of some channel is
\* not a whole number and the two neighbours differ by more than the
\* rounding
C17_Witness ==
  \E n \in Animations :
    /\ AtMidpoint(n)
    /\ \E e \in PaletteEntries, c \in Channels :
         /\ TwiceMean(n, e, c) % 2 = 1
         /\ Distance(DiscretePalette(palette, pal_anim[n].rot)[e][c],
                     DiscretePalette(palette, pal_anim[n].rot + 1)[e][c]) > 2


(* ---------------------------- creation claims --------------------------- *)

\* palettes and engines created, with native calls that succeed or fail,
\* between calls that register resources, and their teardown
NextCreate ==
  \/ \E ok \in BOOLEAN : Palette_create(ok)
  \/ \E ok \in BOOLEAN : Palette_fromfile(ok)
  \/ \E ok \in BOOLEAN : Palette_clone(ok)
  \/ \E ok \in BOOLEAN : Engine_create(ok)
  \/ \E w \in wrappers : Wrapper_del(w)
  \/ Layer_setup(0, "tm1", None)
  \/ Sprite_setup(0, "ss1", 0)

SpecCreate == InitFull /\ [][NextCreate]_vars

\* a creation call whose native call returns no handle
FailedCreation ==
  \/ \E ok \in BOOLEAN : CreatedHandle(ok) = None /\ Palette_create(ok)
  \/ \E ok \in BOOLEAN : CreatedHandle(ok) = None /\ Palette_fromfile(ok)
  \/ \E ok \in BOOLEAN : CreatedHandle(ok) = None /\ Palette_clone(ok)
  \/ \E ok \in BOOLEAN : TLN_Init(ok) = NoContext /\ Engine_create(ok)

\* C18: when the native call behind create, fromfile or clone returns a
\* null handle the call raises, no wrapper object comes to exist, and every
\* entity created before and all engine state are as they were.
C18_FailedCreationChangesNothing ==
  [][ FailedCreation => (raised' /\ UNCHANGED stateVars) ]_vars

\* a creation has just failed while a palette wrapper, a layer and a
\* sprite set up before are still as they were
C18_Witness ==
  /\ raised
  /\ \E w \in wrappers : w.via \in Standalone /\ w.handle \in natives
  /\ layer_content[0] # NoContent
  /\ sprite[0].spriteset = "ss1"


(* -------------------------- availability claims ------------------------- *)

\* sprites and the color cycle taken into use and released, and the first
\* unused slot asked for
NextAvailable ==
  \/ \E s \in Sprites : Sprite_setup(s, "ss1", 0)
  \/ \E s \in Sprites : Sprite_disable(s)
  \/ \E n \in Animations : Animation_set_palette_animation(n, "water", FALSE)
  \/ \E n \in Animations : Animation_disable(n)
  \/ Engine_get_available_sprite
  \/ Engine_get_available_animation

SpecAvailable == InitFull /\ [][NextAvailable]_vars

\* animation slots that are in use
UsedAnimations == { n \in Animations : pal_anim[n].state # "Disabled" }

\* r is the answer for slots 0 .. num - 1 of which those in used are in
\* use: the lowest slot not in use, or -1 when all of them are
LowestUnused(r, num, used) ==
  /\ r \in -1 .. num - 1
  /\ r \notin used
  /\ (r = -1) <=> (\A t \in 0 .. num - 1 : t \in used)
  /\ \A t \in 0 .. r - 1 : t \in used

\* C19: get_available_sprite and get_available_animation return the
\* lowest index, from 0, of a slot not in use, or -1 when every slot is in
\* use; the result lies in -1 .. num - 1 and is never a slot in use.
C19_LowestUnusedSlot ==
  [][ /\ Engine_get_available_sprite =>
           LowestUnused(available_out', NumSprites, UsedSprites)
      /\ Engine_get_available_animation =>
           LowestUnused(available_out', Cardinality(Animations), UsedAnimations)
    ]_vars

\* slot 1 was the answer while slots 0 and 2 were in use
C19_Witness ==
  /\ available_out = 1
  /\ UsedSprites = {0, 2}
  /\ UsedAnimations = Animations


(* ------------------------- sequence pack claims ------------------------- *)

\* a pack made empty by SequencePack.create or loaded with one sequence by
\* SequencePack.fromfile
InitPack ==
  /\ InitEngine
  /\ height = MaxHeight
  /\ \E pack \in {<< >>, << "water" >>} : SequencePack_init(pack)

\* sequences added to the pack, with native calls that succeed or fail,
\* sequences got from it, and the teardown of the wrappers got
NextPack ==
  \/ \E seq \in PackInputs, ok \in BOOLEAN : SequencePack_add_sequence(seq, ok)
  \/ SequencePack_get_sequence
  \/ SequencePack_find_sequence
  \/ \E w \in wrappers : Wrapper_del(w)

SpecPack == InitPack /\ [][NextPack]_vars

\* C20: after construction and after any add_sequence calls, count is
\* the number of sequences inside the pack and sequences maps the name of
\* every contained sequence to it; a failed add_sequence raises and leaves
\* count and sequences unchanged.
C20_CountAndSequencesConsistent ==
  /\ [](/\ pack_count = Len(pack_native)
        /\ DOMAIN pack_sequences = PackNames(pack_native)
        /\ \A n \in DOMAIN pack_sequences : pack_sequences[n] = n)
  /\ [][ \A seq \in PackInputs :
           SequencePack_add_sequence(seq, FALSE) =>
             (raised' /\ UNCHANGED <<pack_count, pack_sequences>>) ]_vars


(* ----------------------------- window claims ---------------------------- *)

\* the window created, single-threaded or threaded, once or again, with
\* native calls that succeed or fail, and frames drawn through it or
\* through the engine
NextWindow ==
  \/ \E ok \in BOOLEAN : Window_create(ok)
  \/ Window_create_threaded
  \/ Window_process
  \/ \E n \in FrameInputs : Engine_update_frame(n)
  \/ TLN_DrawNextScanline
  \/ TLN_EndFrame

SpecWindow == InitFull /\ [][NextWindow]_vars

\* C21: each Window.process call draws one frame whose number is the
\* current num_frame and then increases num_frame by exactly 1; num_frame
\* starts from 0 and changes in no other way, so the frames drawn by
\* successive process calls are numbered 0, 1, 2, ... without gap or
\* repeat, also when Window.create is called again in between.
C21_ProcessCountsFrames ==
  [][ /\ Window_process => (frame' = num_frame /\ caller' = "process")
      /\ (sched = "FrameComplete" /\ sched' = "Idle" /\ caller = "process")
           => num_frame' = num_frame + 1
      /\ (~window_created /\ window_created') => num_frame' = 0
      /\ num_frame' # num_frame =>
           \/ sched = "FrameComplete" /\ caller = "process"
           \/ ~window_created /\ window_created'
    ]_vars

\* the third frame is being drawn by process, after create was called again
C21_Witness ==
  /\ caller = "process"
  /\ sched = "RenderingFrame"
  /\ num_frame = 2
  /\ frame = 2
  /\ window_out = window_obj
  /\ frames_drawn = 3

(* --------------------------- callback claims ---------------------------- *)

\* the callbacks the Engine object holds are the ones the library holds
C22_Held ==
  /\ cb_raster_func = tln_cb_raster
  /\ cb_frame_func = tln_cb_frame

\* the callbacks are invoked as they were last registered
C22_Step ==
  /\ sched # "Idle" => UNCHANGED <<cb_raster_func, cb_frame_func>>
  /\ (sched = "RenderingFrame" /\ line' = line + 1) =>
       rasterCalls' =
         IF cb_raster_func = None
           THEN rasterCalls
           ELSE Append(rasterCalls, [fn |-> cb_raster_func, arg |-> line])
  /\ (sched = "FrameComplete" /\ sched' = "Idle") =>
       frameCalls' =
         IF cb_frame_func = None
           THEN frameCalls
           ELSE Append(frameCalls, [fn |-> cb_frame_func, arg |-> frame])
  /\ (sched = "Idle" /\ sched' = "Idle") =>
       UNCHANGED <<rasterCalls, frameCalls>>

\* C22: the callback registered last with set_raster_callback (with
\* set_frame_callback) is the one invoked on every scanline (frame) drawn
\* until the next registration, none is invoked after a registration with
\* None, and cb_raster_func and cb_frame_func are at all times the callbacks
\* registered with the library.
C22_RegisteredCallbackInvoked == []C22_Held /\ [][C22_Step]_vars

\* after a frame drawn with f, the raster callback is g and the frame
\* callback is unregistered; the next frame calls g and no frame callback
C22_Witness ==
  /\ frames_drawn = 2
  /\ sched = "Idle"
  /\ height >= 2
  /\ cb_raster_func = "g"
  /\ cb_frame_func = None
  /\ Len(rasterCalls) = height
  /\ \A i \in 1 .. height : rasterCalls[i].fn = "g"
  /\ frameCalls = << >>

\* the marks of the frame come in pairs: what begins ends before anything
\* else begins
C23_Serial ==
  /\ Len(events) % 2 = 0
  /\ \A i \in 1 .. Len(events) :
       i % 2 = 1 =>
         /\ events[i].mark = "begin"
         /\ events[i + 1] = [events[i] EXCEPT !.mark = "end"]

\* the order of the marks of the frame
C23_Ordered ==
  \A i, j \in 1 .. Len(events) :
    /\ ( /\ events[i].what = "raster" /\ events[i].mark = "begin"
         /\ events[j].what = "composite" /\ events[j].mark = "begin"
         /\ events[i].arg = events[j].arg ) => j = i + 2
    /\ ( /\ events[i].what = "composite" /\ events[i].mark = "end"
         /\ events[j].what = "raster" /\ events[j].mark = "begin"
         /\ events[j].arg = events[i].arg + 1 ) => j = i + 1
    /\ ( events[i].what = "frame" /\ events[j].what # "frame" ) => j < i

\* C23: in a frame the raster callback of scanline y has returned when the
\* compositing of scanline y begins, the compositing of scanline y has
\* finished when the raster callback of scanline y+1 is invoked, and raster
\* callback, compositing and frame callback are never in progress together.
C23_CallbacksInLine ==
  /\ C23_Serial
  /\ C23_Ordered
  /\ sched # "Idle" =>
       \A y \in 0 .. line - 1 :
         \E i \in 1 .. Len(events) :
           events[i] = [what |-> "composite", arg |-> y, mark |-> "begin"]

\* a frame of several scanlines ended with both callbacks registered
C23_Witness ==
  /\ sched = "Idle"
  /\ height >= 2
  /\ Len(events) = 4 * height + 2
  /\ events[Len(events)].what = "frame"
  /\ events[5] = [what |-> "raster", arg |-> 1, mark |-> "begin"]

\* C24: Window.create_threaded, called when no window exists, starts the
\* background-thread window variant (the variant whose frames run without
\* locking against the calls of other threads): it returns a window and
\* does not raise.
C24_ThreadedVariantStarts ==
  [][(window_obj = NoWindow /\ Window_create_threaded) =>
       (~raised' /\ window_obj' # NoWindow)]_vars

(* --------------------------- animation claims --------------------------- *)

\* what a frame does to a sprite animation a, leaving it as b
C25_Frame(a, b) ==
  /\ (a.state = "Running" /\ a.timer > 1) =>
       /\ b.state = "Running"
       /\ b.timer = a.timer - 1
       /\ b.pos = a.pos
  /\ (a.state = "Running" /\ a.timer = 1 /\ b.state = "Running") =>
       /\ b.pos = (a.pos % Len(SequenceFrames(a.seq))) + 1
       /\ b.timer = SequenceFrames(a.seq)[b.pos].delay
  /\ (a.state = "Running" /\ a.loop = 0) => b.state = "Running"
  /\ a.state # "Running" =>
       /\ b.state = a.state
       /\ b.pos = a.pos
       /\ b.timer = a.timer

\* C25: a running animation loses one tick of its counter per frame and
\* keeps its step while the counter is above zero; when the counter reaches
\* zero it takes the next step of the sequence, wrapping at the end, and
\* the delay of that step as its counter; with loop count 0 it never
\* finishes; a paused or disabled animation keeps its step and counter
\* across frames.
C25_CounterDrivesSteps ==
  [][ /\ BeginsFrame => \A s \in Sprites : C25_Frame(anim[s], anim'[s])
      /\ sched # "Idle" => anim' = anim ]_vars

\* an endless animation went through its steps and wrapped to the first
C25_Witness ==
  /\ anim[0].seq = "walk"
  /\ anim[0].loop = 0
  /\ anim[0].state = "Running"
  /\ anim[0].ticks = 4
  /\ anim[0].pos = 1
  /\ anim[0].timer = 2

(* -------------------------- color strip claims -------------------------- *)

\* color strips made by the program and stepped by the animation engine
NextStrip ==
  \/ \E first \in StripFirstInputs, count \in StripCountInputs,
        direction \in {0, 1} : Strip_create(1, first, count, direction)
  \/ CycleStep

SpecStrip == InitFull /\ [][NextStrip]_vars

\* how many entries of the range of the strip hold color col in pal
C26_Count(pal, col) == Cardinality({ e \in StripRange(strip) : pal[e] = col })

\* the palette since the strip was made
C26_Kept ==
  /\ Cardinality(StripRange(strip)) = strip.count
  /\ \A e \in PaletteEntries \ StripRange(strip) : strip_pal[e] = strip_base[e]
  /\ \A e \in PaletteEntries :
       C26_Count(strip_pal, strip_base[e]) = C26_Count(strip_base, strip_base[e])
  /\ strip_steps = strip.count => strip_pal = strip_base
  /\ (0 < strip_steps /\ strip_steps < strip.count) => strip_pal # strip_base

\* one step: every color of the range moves to the neighbouring entry, and
\* the one at the end of the range comes back in at the other end
C26_Step ==
  strip_steps' = strip_steps + 1 =>
    LET last == strip.first + strip.count - 1
    IN \A e \in StripRange(strip) :
         IF strip.dir = 0
           THEN strip_pal'[IF e = strip.first THEN last ELSE e - 1] = strip_pal[e]
           ELSE strip_pal'[IF e = last THEN strip.first ELSE e + 1] = strip_pal[e]

\* C26: each step of a color strip rotates exactly the count consecutive
\* palette entries from first on by one position in the direction dir; the
\* entries outside the range keep their colors, the colors of the range
\* stay the same multiset, and count steps of the strip give the palette
\* it started from.
C26_StepRotatesRange == []C26_Kept /\ [][C26_Step]_vars

\* a strip over the last two entries, made on a palette already cycled,
\* went through its two steps
C26_Witness ==
  /\ strip = ColorStrip(1, 1, 2, 1)
  /\ strip_steps = 2
  /\ strip_base # [e \in PaletteEntries |-> BaseColor(e)]
  /\ strip_pal = strip_base

(* ------------------------- layer position claims ------------------------ *)

\* layers given a content and then scrolled
NextPosition ==
  \/ \E l \in LayerInputs, t \in Tilemaps, ts \in Tilesets \cup {None} :
       Layer_setup(l, t, ts)
  \/ \E l \in LayerInputs, x \in WidePosInputs, y \in WidePosInputs :
       Layer_set_position(l, x, y)

SpecPosition == InitFull /\ [][NextPosition]_vars

\* v tenths of a pixel wrapped into a content of size pixels
C27_Wrap(v, size) == IF size = 0 THEN v ELSE v % (10 * size)

\* the size of the content of layer l, <<0, 0>> without a content
C27_Size(l) ==
  IF layer_content[l] = NoContent
    THEN << 0, 0 >>
    ELSE ContentSize(layer_content[l].obj)

\* C27: Layer.set_position on a valid layer never fails and leaves the
\* layer at the coordinates it was given, fractional part included, wrapped
\* modulo the width and the height of the content.
C27_FractionKept ==
  [][ (pos_call' # pos_call /\ pos_call'[1] \in Layers) =>
        /\ ~raised'
        /\ 10 * layer_pos'[pos_call'[1]][1]
             = C27_Wrap(pos_call'[2], C27_Size(pos_call'[1])[1])
        /\ 10 * layer_pos'[pos_call'[1]][2]
             = C27_Wrap(pos_call'[3], C27_Size(pos_call'[1])[2]) ]_vars

(* ------------------------ error reporting claims ------------------------ *)

\* C28: a mutator raises TilengineException only when its native call
\* reported a failure: a call of Engine.set_sprites_mask_region whose
\* region the library has taken returns without raising.
C28_RaisesOnlyOnFailure ==
  [][ (mask_call' # mask_call /\ mask_region' = mask_call') => ~raised' ]_vars

\* the Window objects and the native windows there are
C30_One ==
  /\ native_windows <= 1
  /\ window_out # NoWindow => (window_out = window_obj /\ ~raised)
  /\ window_by # None => window_out # NoWindow

\* C30: over Window.create and Window.create_threaded calls the native
\* window is created at most once, and every call that succeeds returns
\* the Window object the first successful call returned.
C30_WindowSingleton ==
  /\ []C30_One
  /\ [][window_out # NoWindow => window_out' = window_out]_vars

\* Window.create_threaded returned the window that Window.create had made,
\* after frames were drawn in it
C30_Witness ==
  /\ window_by = "create_threaded"
  /\ window_out = window_obj
  /\ native_windows = 1
  /\ num_frame = 1

(* ----------------------------- delete claims ---------------------------- *)

\* Sequence objects the program holds
SequenceWrappers ==
  { w \in wrappers :
      w.via \in {"Sequence.create_sequence", "Sequence.create_cycle",
                  "Sequence.clone"} }

\* a wrapper the pack object keeps in its dictionary lives as long as the
\* pack object
HeldByPack(w) == pack_alive /\ w.handle \in DOMAIN pack_sequences

\* sequences created, added to the pack, and the teardown of the pack and
\* of the Sequence objects
NextDelete ==
  \/ \E ok \in BOOLEAN : Sequence_create_sequence(ok)
  \/ \E ok \in BOOLEAN : Sequence_create_cycle(ok)
  \/ \E w \in SequenceWrappers, ok \in BOOLEAN : Sequence_clone(w, ok)
  \/ \E w \in SequenceWrappers, ok \in BOOLEAN :
       SequencePack_add_sequence(w.handle, ok)
  \/ SequencePack_del
  \/ \E w \in wrappers : ~HeldByPack(w) /\ Wrapper_del(w)

SpecDelete == InitFull /\ [][NextDelete]_vars

\* C29: every native handle is passed to its delete function at most once:
\* the teardown of an owning wrapper, and the teardown of the pack for the
\* sequences it holds, pass handles that nothing has deleted before.
C29_DeletedAtMostOnce ==
  [][ /\ \A w \in wrappers :
           (w \notin wrappers' /\ w.owner) => w.handle \in natives
      /\ (pack_alive /\ ~pack_alive') => PackNames(pack_native) \subseteq natives
    ]_vars

============================================================================
